---- MODULE Spec2Model ----
(***************************************************************************)
(* Model of the FHEVM SDK core: the FhevmClient lifecycle                  *)
(* (packages/fhevm-sdk/src/client.ts), the EncryptionService               *)
(* (encryption.ts, kept as src/unnamed/part_001) and the DecryptionService *)
(* (packages/fhevm-sdk/src/decryption.ts).                                 *)
(*                                                                         *)
(* Scheduling is JavaScript's: one thread, an async function runs until    *)
(* its next await, and any other task may run between an await and its     *)
(* continuation.  Every action below is one such run-to-suspension slice.  *)
(***************************************************************************)
EXTENDS Integers, Sequences, FiniteSets, TLC

\* ------------------------------------------------------------------ bounds
MaxInitCalls == 2      \* initialize() calls made on the client
MaxDecryptCalls == 2   \* userDecrypt() calls made, direct or inside a batch
MaxBatches == 1        \* batchUserDecrypt() calls made
MaxEncryptCalls == 2   \* encrypt calls made on the EncryptionService
MaxPublicCalls == 2    \* publicDecrypt() calls made
MaxCreateCalls == 1    \* createContract() calls made on the ContractHelper
MaxTxCalls == 2        \* sendEncryptedTransaction() calls made on the ContractHelper
MaxEffects == 3        \* runs of the effect of useFhevmClient that create a client
MaxAttempts == 3       \* the largest maxRetries given to retry()

ICalls == 1..MaxInitCalls
DCalls == 1..MaxDecryptCalls
Batches == 1..MaxBatches
ECalls == 1..MaxEncryptCalls
PCalls == 1..MaxPublicCalls
MCalls == 1..MaxCreateCalls
TCalls == 1..MaxTxCalls
Effects == 1..MaxEffects

\* ------------------------------------------------------------------ values
\* `private instance: any` has no initializer: undefined until assigned,
\* null after dispose(), an fhevmjs instance after createInstance resolved.
Undefined == [kind |-> "undefined", id |-> 0]
Null == [kind |-> "null", id |-> 0]
Inst(n) == [kind |-> "instance", id |-> n]

\* JavaScript truthiness of the handle (`!this.instance`).
Truthy(x) == x.kind = "instance"

\* Errors are the chain of messages from the outermost wrapper to the cause:
\* new Error(`<msg>: ${error}`) keeps the cause's text after the prefix.
Wrap(msg, cause) == <<msg>> \o cause

ImportFailed == <<"cannot load fhevmjs">>
BackendUnreachable == <<"createInstance rejected">>

VARIABLES
    isInitialized,   \* FhevmClient._isInitialized
    encInitialized,  \* EncryptionService.initialized
    encInstance,     \* EncryptionService.instance
    decInitialized,  \* DecryptionService.initialized
    signer,          \* FhevmClient.signer is set (config, immutable)
    encBuilt,        \* backend instances createInstance has produced for EncryptionService
    init,            \* the initialize() calls: position, outcome and what each did
    disposed,        \* dispose() has been called on this client
    lastEvent,       \* the kind of the last slice of initialize() or dispose() that ran
    dec,             \* the userDecrypt() calls: position, locals, outcome
    batch,           \* the batchUserDecrypt() calls: the Promise.all over their userDecrypt calls
    decBuilt,        \* backend instances createInstance has produced for userDecrypt calls
    now,             \* the last value Date.now() returned, in ticks
    enc,             \* the encrypt calls (encryptU8 .. encryptBool, createEncryptedInput)
    sessions,        \* the encrypted-input sessions opened on the backend, in order
    pub,             \* the publicDecrypt() calls: position, the view call made, outcome
    config,          \* FhevmClient.provider, network, gatewayUrl, aclAddress, and what was given
    read,            \* the last synchronous read made on the client, and what it returned
    made,            \* the createContract() calls: the signers seen and the outcome
    tx,              \* the sendEncryptedTransaction() calls: position, what was invoked, outcome
    hook,            \* a component using useFhevmClient: its state, its effects, the clients made
    rt,              \* a retry() call: its arguments, loop counter, what it invoked, outcome
    fac,             \* a createFhevmClient / createFhevmClientSync call: position, outcome
    use              \* useFhevmEncrypt and useFhevmDecrypt: busy flag, error, the calls made

clientState == <<isInitialized, encInitialized, encInstance, decInitialized>>
decryptVars == <<dec, batch, decBuilt, now>>
encryptVars == <<enc, sessions>>
publicVars == <<pub>>
helperVars == <<made, tx>>
utilVars == <<rt, fac, use>>
outerVars == <<config, read, made, tx, hook, rt, fac, use>>
vars == <<isInitialized, encInitialized, encInstance, decInitialized, signer,
          encBuilt, init, disposed, lastEvent, dec, batch, decBuilt, now,
          enc, sessions, pub, config, read, made, tx, hook, rt, fac, use>>

\* ------------------------------------------------------------------ configuration
\* FhevmConfig as given to the constructor; network, gatewayUrl and aclAddress
\* are optional (NotGiven: the property is undefined).
NotGiven == "<undefined>"
GivenConfigs ==
    {[provider |-> "provider", network |-> NotGiven, gatewayUrl |-> NotGiven,
      aclAddress |-> NotGiven],
     [provider |-> "provider", network |-> "", gatewayUrl |-> NotGiven,
      aclAddress |-> "0xACL"],
     [provider |-> "provider", network |-> "localhost", gatewayUrl |-> "https://gateway",
      aclAddress |-> "0xACL"],
     [provider |-> "wallet", network |-> "sepolia", gatewayUrl |-> "https://gateway",
      aclAddress |-> NotGiven],
     [provider |-> "wallet", network |-> "mainnet", gatewayUrl |-> NotGiven,
      aclAddress |-> NotGiven],
     [provider |-> "wallet", network |-> "goerli", gatewayUrl |-> NotGiven,
      aclAddress |-> NotGiven],
     [provider |-> "wallet", network |-> "constructor", gatewayUrl |-> NotGiven,
      aclAddress |-> NotGiven]}
DefaultGiven ==
    [provider |-> "provider", network |-> NotGiven, gatewayUrl |-> NotGiven,
     aclAddress |-> NotGiven]

\* JavaScript falsiness of an optional string (`config.network || 'localhost'`).
Falsy(str) == str \in {NotGiven, ""}

\* A constructor that copies the network as given.
ConstructorNoDefault(given) ==
    [given |-> given,
     provider |-> given.provider,
     network |-> given.network,
     gatewayUrl |-> given.gatewayUrl,
     aclAddress |-> given.aclAddress]

\* new FhevmClient(config): the fields are copied, network defaulted.
Constructor(given) ==
    [given |-> given,
     provider |-> given.provider,
     network |-> IF Falsy(given.network) THEN "localhost" ELSE given.network,
     gatewayUrl |-> given.gatewayUrl,
     aclAddress |-> given.aclAddress]

\* The accessors of FhevmClient (getSigner is the signer variable).
getProvider == config.provider
getNetwork == config.network
getGatewayUrl == config.gatewayUrl
getAclAddress == config.aclAddress

\* JavaScript values a table lookup can give: a number, a string, or a member
\* inherited from Object.prototype (a function, or the prototype object).
JsNumber(n) == [kind |-> "number", num |-> n, str |-> ""]
JsString(t) == [kind |-> "string", num |-> 0, str |-> t]
JsInherited(name) == [kind |-> "inherited", num |-> 0, str |-> name]
JsUndefined == [kind |-> "undefined", num |-> 0, str |-> ""]

\* What every object literal inherits from Object.prototype.
ObjectPrototypeKeys ==
    {"constructor", "toString", "toLocaleString", "valueOf", "hasOwnProperty",
     "isPrototypeOf", "propertyIsEnumerable", "__proto__"}

\* table[key] on an object literal with the own properties localhost, sepolia, mainnet.
Lookup(own, key) ==
    IF key \in DOMAIN own THEN own[key]
    ELSE IF key \in ObjectPrototypeKeys THEN JsInherited(key)
    ELSE JsUndefined

\* `x || fallback`: every value here but undefined is truthy (no entry is 0 or "").
OrElse(x, fallback) == IF x.kind = "undefined" THEN fallback ELSE x

chainIds == [localhost |-> JsNumber(31337), sepolia |-> JsNumber(11155111),
             mainnet |-> JsNumber(1)]
urls == [localhost |-> JsString("http://127.0.0.1:8545"),
         sepolia |-> JsString("https://sepolia.infura.io/v3/"),
         mainnet |-> JsString("https://mainnet.infura.io/v3/")]

\* EncryptionService.getChainId / getNetworkUrl.
getChainId(network) == OrElse(Lookup(chainIds, network), JsNumber(31337))
getNetworkUrl(network) == OrElse(Lookup(urls, network), JsString("http://127.0.0.1:8545"))

\* The argument of createInstance in EncryptionService.initialize.
NoInstanceConfig == [chainId |-> JsUndefined, networkUrl |-> JsUndefined,
                     gatewayUrl |-> NotGiven, aclAddress |-> NotGiven]
InstanceConfig ==
    [chainId |-> getChainId(getNetwork), networkUrl |-> getNetworkUrl(getNetwork),
     gatewayUrl |-> getGatewayUrl, aclAddress |-> getAclAddress]

\* DecryptionService keeps tables of its own.
decChainIds == [localhost |-> JsNumber(31337), sepolia |-> JsNumber(11155111),
                mainnet |-> JsNumber(1)]
decUrls == [localhost |-> JsString("http://127.0.0.1:8545"),
            sepolia |-> JsString("https://sepolia.infura.io/v3/"),
            mainnet |-> JsString("https://mainnet.infura.io/v3/")]

\* decGetChainId falling back to mainnet.
decGetChainIdMainnet(network) == OrElse(Lookup(decChainIds, network), JsNumber(1))

\* DecryptionService.getChainId / getNetworkUrl.
decGetChainId(network) == OrElse(Lookup(decChainIds, network), JsNumber(31337))
decGetNetworkUrl(network) ==
    OrElse(Lookup(decUrls, network), JsString("http://127.0.0.1:8545"))

\* The argument of createInstance in DecryptionService.userDecrypt.
DecInstanceConfig ==
    [chainId |-> decGetChainId(getNetwork), networkUrl |-> decGetNetworkUrl(getNetwork),
     gatewayUrl |-> getGatewayUrl, aclAddress |-> getAclAddress]

\* ------------------------------------------------------------------ EncryptionService
\* hasKeys that looks at the handle only.
hasKeysHandleOnly == encInstance # Null

\* hasKeys(): this.initialized && this.instance !== null
hasKeys == encInitialized /\ encInstance # Null

\* getState that reports the client initialized as soon as its services exist.
getStateServicesExist ==
    [isInitialized |-> TRUE, network |-> getNetwork, userAddress |-> Undefined,
     hasKeys |-> hasKeys]

\* FhevmClient.getState(): a read of the flag and of hasKeys(); userAddress is
\* undefined whether or not there is a signer. (The network field is the
\* configured network, which no operation here reads.)
getState ==
    [isInitialized |-> isInitialized, network |-> getNetwork, userAddress |-> Undefined,
     hasKeys |-> hasKeys]


\* ------------------------------------------------------------------ synchronous reads
\* The backend's public key, as the instance's getPublicKey() returns it.
PublicKey(inst) == [kind |-> "publicKey", id |-> inst.id]

\* getPublicKey without the guard: calling a method of undefined or null throws.
getPublicKeyNoGuard ==
    IF ~Truthy(encInstance) THEN [threw |-> TRUE, handle |-> Undefined]
    ELSE [threw |-> FALSE, handle |-> PublicKey(encInstance)]

\* EncryptionService.getPublicKey(): undefined without a handle.
getPublicKey ==
    IF ~Truthy(encInstance) THEN [threw |-> FALSE, handle |-> Undefined]
    ELSE [threw |-> FALSE, handle |-> PublicKey(encInstance)]

\* FhevmClient.getSigner() and isInitialized().
getSigner == signer
isInitializedCall == isInitialized

ReadOps == {"getState", "hasKeys", "getPublicKey", "isInitialized", "getProvider",
            "getSigner", "getNetwork", "getGatewayUrl", "getAclAddress"}
NoState == [isInitialized |-> FALSE, network |-> "", userAddress |-> Undefined,
            hasKeys |-> FALSE]
NoRead == [op |-> "none", threw |-> FALSE, flag |-> FALSE, text |-> "",
           handle |-> Undefined, state |-> NoState]

\* What a read returns, in the field of its type.
ReadResult(op) ==
    [NoRead EXCEPT
       !.op = op,
       !.threw = IF op = "getPublicKey" THEN getPublicKey.threw ELSE FALSE,
       !.flag = CASE op = "hasKeys" -> hasKeys
                  [] op = "isInitialized" -> isInitializedCall
                  [] op = "getSigner" -> getSigner
                  [] OTHER -> FALSE,
       !.text = CASE op = "getProvider" -> getProvider
                  [] op = "getNetwork" -> getNetwork
                  [] op = "getGatewayUrl" -> getGatewayUrl
                  [] op = "getAclAddress" -> getAclAddress
                  [] OTHER -> "",
       !.handle = IF op = "getPublicKey" THEN getPublicKey.handle ELSE Undefined,
       !.state = IF op = "getState" THEN getState ELSE NoState]

\* A read that writes the flag it reads.
ReadResetsFlag(op) ==
    /\ read' = ReadResult(op)
    /\ isInitialized' = FALSE
    /\ UNCHANGED <<encInitialized, encInstance, decInitialized, signer, encBuilt, init,
                   disposed, lastEvent, decryptVars, encryptVars, publicVars, config,
                   helperVars, hook, utilVars>>

\* One of the synchronous reads is called: none assigns a field.
Read(op) ==
    /\ read' = ReadResult(op)
    /\ UNCHANGED <<clientState, signer, encBuilt, init, disposed, lastEvent,
                   decryptVars, encryptVars, publicVars, config, helperVars, hook, utilVars>>

\* ------------------------------------------------------------------ initialize() calls
IdleCall == [pc |-> "idle", result |-> "none", error |-> <<>>, built |-> 0, attempts |-> 0,
             created |-> NoInstanceConfig,
             afterDispose |-> FALSE, disposedDuring |-> FALSE,
             disposedAfter |-> FALSE, solo |-> TRUE, setReady |-> FALSE]

InFlight(c) == init[c].pc \notin {"idle", "done"}
Quiescent == \A c \in ICalls : ~InFlight(c)

\* A new call makes every call it overlaps non-solo.
Overlapped(c) == [d \in ICalls |->
    IF d # c /\ InFlight(d) THEN [init[d] EXCEPT !.solo = FALSE] ELSE init[d]]

\* The error FhevmClient.initialize rejects with when EncryptionService.initialize
\* rejected with cause `cause`: each layer's catch re-wraps.
InitError(cause) ==
    Wrap("Failed to initialize FHEVM client",
         Wrap("Failed to initialize encryption service", cause))

Reject(c, cause) ==
    /\ init' = [init EXCEPT ![c].pc = "done", ![c].result = "err",
                            ![c].error = InitError(cause)]
    /\ lastEvent' = IF init[c].solo THEN "initFailedSolo" ELSE "initFailed"

\* InitEnter with the `if (this._isInitialized) return` of FhevmClient.initialize left out.
InitEnterNoGuard(c) ==
    /\ init[c].pc = "idle"
    /\ \A d \in ICalls : d < c => init[d].pc # "idle"
    /\ init' = [Overlapped(c) EXCEPT ![c].afterDispose = disposed,
                                     ![c].solo = Quiescent,
                                     ![c].pc = IF encInitialized THEN "awaitEnc" ELSE "import"]
    /\ lastEvent' = "enter"
    /\ UNCHANGED <<clientState, signer, encBuilt, disposed>>
    /\ UNCHANGED <<decryptVars, encryptVars, publicVars, outerVars>>

\* FhevmClient.initialize up to its first suspension: the _isInitialized check,
\* then the synchronous head of EncryptionService.initialize (its own check,
\* then `await import('fhevmjs')`).
InitEntered(c) ==
    /\ init[c].pc = "idle"
    /\ \A d \in ICalls : d < c => init[d].pc # "idle"
    /\ LET entered == [Overlapped(c) EXCEPT ![c].afterDispose = disposed,
                                            ![c].solo = Quiescent]
       IN IF isInitialized
          THEN /\ init' = [entered EXCEPT ![c].pc = "done", ![c].result = "ok"]
               /\ lastEvent' = "initOk"
          ELSE /\ init' = [entered EXCEPT ![c].pc =
                              IF encInitialized THEN "awaitEnc" ELSE "import"]
               /\ lastEvent' = "enter"
    /\ UNCHANGED <<clientState, signer, encBuilt, disposed>>

\* client.initialize() called by the holder of the client.
InitEnter(c) ==
    /\ InitEntered(c)
    /\ UNCHANGED <<decryptVars, encryptVars, publicVars, outerVars>>

\* EncImportDone with `this.initialized = true` moved before the await of createInstance.
EncImportDoneFlagFirst(c) ==
    /\ init[c].pc = "import"
    /\ encInitialized' = TRUE
    /\ init' = [init EXCEPT ![c].pc = "create", ![c].attempts = @ + 1,
                            ![c].created = InstanceConfig]
    /\ lastEvent' = "step"
    /\ UNCHANGED <<isInitialized, encInstance, decInitialized, signer, encBuilt, disposed>>
    /\ UNCHANGED <<decryptVars, encryptVars, publicVars, outerVars>>

\* `await import('fhevmjs')` resolved: the network is resolved and
\* createInstance({...}) is called; the call suspends on its promise.
EncImportDone(c) ==
    /\ init[c].pc = "import"
    /\ init' = [init EXCEPT ![c].pc = "create", ![c].attempts = @ + 1,
                            ![c].created = InstanceConfig]
    /\ lastEvent' = "step"
    /\ UNCHANGED <<clientState, signer, encBuilt, disposed>>
    /\ UNCHANGED <<decryptVars, encryptVars, publicVars, outerVars>>

\* The dynamic import rejected: EncryptionService's catch wraps, then the client's.
EncImportFails(c) ==
    /\ init[c].pc = "import"
    /\ Reject(c, ImportFailed)
    /\ UNCHANGED <<clientState, signer, encBuilt, disposed>>
    /\ UNCHANGED <<decryptVars, encryptVars, publicVars, outerVars>>

\* EncCreateDone with the client's flag set as soon as the EncryptionService is
\* initialized, before DecryptionService.initialize().
EncCreateDoneSetsReady(c) ==
    /\ init[c].pc = "create"
    /\ encBuilt' = encBuilt + 1
    /\ encInstance' = Inst(encBuilt + 1)
    /\ encInitialized' = TRUE
    /\ isInitialized' = TRUE
    /\ init' = [init EXCEPT ![c].pc = "awaitEnc", ![c].built = 1]
    /\ lastEvent' = "step"
    /\ UNCHANGED <<decInitialized, signer, disposed>>
    /\ UNCHANGED <<decryptVars, encryptVars, publicVars, outerVars>>

\* createInstance resolved: this.instance = <the new instance>; this.initialized = true.
\* EncryptionService.initialize returns and the client's await is pending.
EncCreateDone(c) ==
    /\ init[c].pc = "create"
    /\ encBuilt' = encBuilt + 1
    /\ encInstance' = Inst(encBuilt + 1)
    /\ encInitialized' = TRUE
    /\ init' = [init EXCEPT ![c].pc = "awaitEnc", ![c].built = 1]
    /\ lastEvent' = "step"
    /\ UNCHANGED <<isInitialized, decInitialized, signer, disposed>>
    /\ UNCHANGED <<decryptVars, encryptVars, publicVars, outerVars>>

\* EncCreateFails with a retry inside the service: the first rejection of
\* createInstance is answered by calling it again.
EncCreateFailsRetries(c) ==
    /\ init[c].pc = "create"
    /\ IF init[c].attempts < 2
       THEN /\ init' = [init EXCEPT ![c].attempts = @ + 1]
            /\ lastEvent' = "step"
       ELSE Reject(c, BackendUnreachable)
    /\ UNCHANGED <<clientState, signer, encBuilt, disposed>>
    /\ UNCHANGED <<decryptVars, encryptVars, publicVars, outerVars>>

\* createInstance rejected (backend unreachable): nothing is assigned.
EncCreateFails(c) ==
    /\ init[c].pc = "create"
    /\ Reject(c, BackendUnreachable)
    /\ UNCHANGED <<clientState, signer, encBuilt, disposed>>
    /\ UNCHANGED <<decryptVars, encryptVars, publicVars, outerVars>>

\* DecryptionService.initialize(): no suspension inside, sets the flag unless set.
DecInitialize(c) ==
    /\ init[c].pc = "awaitEnc"
    /\ decInitialized' = TRUE
    /\ init' = [init EXCEPT ![c].pc = "awaitDec"]
    /\ lastEvent' = "step"
    /\ UNCHANGED <<isInitialized, encInitialized, encInstance, signer, encBuilt, disposed>>
    /\ UNCHANGED <<decryptVars, encryptVars, publicVars, outerVars>>

\* Both awaits are over: this._isInitialized = true, the call resolves.
InitFinish(c) ==
    /\ init[c].pc = "awaitDec"
    /\ isInitialized' = TRUE
    /\ init' = [init EXCEPT ![c].pc = "done", ![c].result = "ok", ![c].setReady = TRUE]
    /\ lastEvent' = "initOk"
    /\ UNCHANGED <<encInitialized, encInstance, decInitialized, signer, encBuilt, disposed>>
    /\ UNCHANGED <<decryptVars, encryptVars, publicVars, outerVars>>

\* ------------------------------------------------------------------ dispose()
\* What a dispose() call records about the initialize() calls: the ones it
\* interrupts, the ones that had returned before it.
DisposeNoted == [c \in ICalls |->
    IF InFlight(c)
    THEN [init[c] EXCEPT !.disposedDuring = TRUE, !.solo = FALSE]
    ELSE IF init[c].pc = "done" THEN [init[c] EXCEPT !.disposedAfter = TRUE]
    ELSE init[c]]

DisposeEvent == IF lastEvent \in {"dispose", "disposeAgain"} THEN "disposeAgain" ELSE "dispose"

\* Dispose that returns at once on a client whose _isInitialized is false.
DisposeOnlyIfReady ==
    /\ IF isInitialized
       THEN /\ encInstance' = Null
            /\ encInitialized' = FALSE
            /\ decInitialized' = FALSE
            /\ isInitialized' = FALSE
       ELSE UNCHANGED clientState
    /\ disposed' = TRUE
    /\ init' = DisposeNoted
    /\ lastEvent' = DisposeEvent
    /\ UNCHANGED <<signer, encBuilt>>
    /\ UNCHANGED <<decryptVars, encryptVars, publicVars, outerVars>>

\* Dispose that resets the client's own flag and forgets encryption.dispose().
DisposeClientOnly ==
    /\ decInitialized' = FALSE
    /\ isInitialized' = FALSE
    /\ disposed' = TRUE
    /\ init' = DisposeNoted
    /\ lastEvent' = DisposeEvent
    /\ UNCHANGED <<encInstance, encInitialized, signer, encBuilt>>
    /\ UNCHANGED <<decryptVars, encryptVars, publicVars, outerVars>>

\* FhevmClient.dispose(): synchronous, no throw.
\*   encryption.dispose(): instance = null; initialized = false
\*   decryption.dispose(): initialized = false
\*   _isInitialized = false
Dispose ==
    /\ encInstance' = Null
    /\ encInitialized' = FALSE
    /\ decInitialized' = FALSE
    /\ isInitialized' = FALSE
    /\ disposed' = TRUE
    /\ init' = DisposeNoted
    /\ lastEvent' = DisposeEvent
    /\ UNCHANGED <<signer, encBuilt>>
    /\ UNCHANGED <<decryptVars, encryptVars, publicVars, outerVars>>

\* ------------------------------------------------------------------ DecryptionService
\* DecryptionRequest { contractAddress, userAddress, handle }
ReqA == [contractAddress |-> "0xA", userAddress |-> "0xU1", handle |-> 1]
ReqB == [contractAddress |-> "0xB", userAddress |-> "0xU2", handle |-> 2]
Requests == {ReqA, ReqB}
NoRequest == [contractAddress |-> "", userAddress |-> "", handle |-> 0]

\* instance.createEIP712(contractAddress, userAddress): the typed data to sign.
NoData == [domain |-> "", types |-> "", message |-> [contract |-> "", user |-> ""]]
CreateEIP712(contractAddress, userAddress) ==
    [domain |-> "fhevm", types |-> "Reencrypt",
     message |-> [contract |-> contractAddress, user |-> userAddress]]

\* signer.signTypedData(domain, {Reencrypt}, message): the signature names what was signed.
NoSignature == [over |-> NoData]
SignTypedData(data) == [over |-> data]

\* The arguments of instance.reencrypt(handle, contractAddress, userAddress, signature).
NoPayload == [handle |-> 0, contractAddress |-> "", userAddress |-> "", signature |-> NoSignature]
Payload(req, sig) ==
    [handle |-> req.handle, contractAddress |-> req.contractAddress,
     userAddress |-> req.userAddress, signature |-> sig]

\* What the gateway answers for a handle it accepts to decrypt.
Plaintext(handle) == 40 + handle

\* DecryptionResult { value, timestamp }
NoResult == [value |-> 0, timestamp |-> 0]
DecryptionResult(v, t) == [value |-> v, timestamp |-> t]

NotInitializedError == <<"Decryption service not initialized">>
SignerRequiredError == <<"Signer required for user decryption">>
DecryptionError(cause) == Wrap("Failed to decrypt value", cause)
DeriveFailed == <<"createEIP712 threw">>
SignatureRefused == <<"signTypedData rejected">>
GatewayRefused == <<"reencrypt rejected">>

IdleDCall == [pc |-> "idle", req |-> NoRequest, batch |-> 0, idx |-> 0, entryInit |-> FALSE,
              created |-> NoInstanceConfig,
              instance |-> 0, eip712 |-> NoData, derivedOn |-> 0,
              signature |-> NoSignature, submitted |-> NoPayload, submittedOn |-> 0,
              result |-> "none", value |-> NoResult,
              error |-> <<>>, steps |-> <<>>]
IdleBatch == [status |-> "idle", requests |-> <<>>, calls |-> <<>>, values |-> <<>>, remaining |-> 0,
              result |-> <<>>, rejected |-> FALSE, error |-> <<>>]

FreeCalls == Cardinality({k \in DCalls : dec[k].pc = "idle"})
UsedCalls == MaxDecryptCalls - FreeCalls

\* UdEntered without the `if (!signer) throw` of userDecrypt.
UdEnteredNoSignerCheck(req, b, i) ==
    LET call == [IdleDCall EXCEPT !.req = req, !.batch = b, !.idx = i,
                                  !.entryInit = decInitialized]
    IN IF ~decInitialized
       THEN [call EXCEPT !.pc = "done", !.result = "err", !.error = NotInitializedError]
       ELSE [call EXCEPT !.pc = "import"]

\* UdEntered with its two checks exchanged: the signer first.
UdEnteredSignerFirst(req, b, i) ==
    LET call == [IdleDCall EXCEPT !.req = req, !.batch = b, !.idx = i,
                                  !.entryInit = decInitialized]
    IN IF ~signer
       THEN [call EXCEPT !.pc = "done", !.result = "err", !.error = SignerRequiredError]
       ELSE IF ~decInitialized
       THEN [call EXCEPT !.pc = "done", !.result = "err", !.error = NotInitializedError]
       ELSE [call EXCEPT !.pc = "import"]

\* userDecrypt up to its first suspension, for request req as element i of batch b
\* (b = 0: a direct call): the initialized check, then the signer check, both
\* thrown outside the try, then `await import('fhevmjs')`.
UdEntered(req, b, i) ==
    LET call == [IdleDCall EXCEPT !.req = req, !.batch = b, !.idx = i,
                                  !.entryInit = decInitialized]
    IN IF ~decInitialized
       THEN [call EXCEPT !.pc = "done", !.result = "err", !.error = NotInitializedError]
       ELSE IF ~signer
       THEN [call EXCEPT !.pc = "done", !.result = "err", !.error = SignerRequiredError]
       ELSE [call EXCEPT !.pc = "import"]

\* Stored as a push: the values kept in the order they arrive.
StoredInArrivalOrder(values, i, v, filled) == [values EXCEPT ![filled + 1] = v]

\* Promise.all, one input promise fulfilled: the value goes to the input's own
\* position; the last one to arrive resolves the whole.
Stored(values, i, v, filled) == [values EXCEPT ![i] = v]

PromiseAllFulfilled(bs, b, i, v) ==
    IF b = 0 \/ bs[b].status # "pending" THEN bs
    ELSE LET n == Len(bs[b].calls)
             vals == Stored(bs[b].values, i, v, n - bs[b].remaining)
             rem == bs[b].remaining - 1
         IN [bs EXCEPT ![b].values = vals, ![b].remaining = rem,
                       ![b].status = IF rem = 0 THEN "resolved" ELSE "pending",
                       ![b].result = IF rem = 0 THEN vals ELSE <<>>]

\* PromiseAllRejected as Promise.allSettled would do: the failure takes its place
\* in the list and the whole still resolves.
PromiseAllSettledRejected(bs, b, i, err) ==
    IF b = 0 \/ bs[b].status # "pending" THEN bs
    ELSE LET vals == [bs[b].values EXCEPT ![i] = NoResult]
             rem == bs[b].remaining - 1
         IN [bs EXCEPT ![b].values = vals, ![b].remaining = rem,
                       ![b].status = IF rem = 0 THEN "resolved" ELSE "pending",
                       ![b].result = IF rem = 0 THEN vals ELSE <<>>]

\* PromiseAllRejected as a loop awaiting the promises in index order would do: the
\* failure of input i is seen only once the inputs before it have been fulfilled.
PromiseAllRejectedInOrder(bs, b, i, err) ==
    IF b = 0 \/ bs[b].status # "pending" THEN bs
    ELSE IF \E j \in 1..(i - 1) : bs[b].values[j] = NoResult THEN bs
    ELSE [bs EXCEPT ![b].status = "rejected", ![b].rejected = TRUE, ![b].error = err]

\* Promise.all, one input promise rejected: the whole rejects with that reason,
\* unless it is settled already.
PromiseAllRejected(bs, b, i, err) ==
    IF b = 0 \/ bs[b].status # "pending" THEN bs
    ELSE [bs EXCEPT ![b].status = "rejected", ![b].rejected = TRUE, ![b].error = err]

\* The call returns { value, timestamp: Date.now() }: the clock has not gone back
\* since the last reading, and may or may not have advanced.
Fulfil(k, v) ==
    \E t \in {now, now + 1} :
        LET r == DecryptionResult(v, t)
        IN /\ dec' = [dec EXCEPT ![k].pc = "done", ![k].result = "ok", ![k].value = r,
                                 ![k].steps = @ \o <<"answer", "return">>]
           /\ batch' = PromiseAllFulfilled(batch, dec[k].batch, dec[k].idx, r)
           /\ now' = t

\* RejectCall with a catch that rethrows what it caught, unwrapped.
RejectCallUnwrapped(k, cause) ==
    /\ dec' = [dec EXCEPT ![k].pc = "done", ![k].result = "err", ![k].error = cause]
    /\ batch' = PromiseAllRejected(batch, dec[k].batch, dec[k].idx, cause)
    /\ UNCHANGED now

\* The catch of userDecrypt: throw new Error(`Failed to decrypt value: ${error}`).
RejectCall(k, cause) ==
    /\ dec' = [dec EXCEPT ![k].pc = "done", ![k].result = "err",
                          ![k].error = DecryptionError(cause)]
    /\ batch' = PromiseAllRejected(batch, dec[k].batch, dec[k].idx, DecryptionError(cause))
    /\ UNCHANGED now

lifecycleVars == <<clientState, signer, encBuilt, init, disposed, lastEvent>>

\* A direct userDecrypt(req) call.
UserDecrypt(k, req) ==
    /\ dec[k].pc = "idle"
    /\ k = UsedCalls + 1
    /\ dec' = [dec EXCEPT ![k] = UdEntered(req, 0, 0)]
    /\ UNCHANGED <<lifecycleVars, outerVars, encryptVars, publicVars, batch, decBuilt, now>>

\* BatchUserDecrypt with the service's own initialized and signer checks made
\* before the fan-out.
BatchUserDecryptChecked(b, reqs) ==
    LET n == Len(reqs)
        first == UsedCalls
        started == [k \in DCalls |->
                      IF k > first /\ k <= first + n
                      THEN UdEntered(reqs[k - first], b, k - first)
                      ELSE dec[k]]
        pending == [IdleBatch EXCEPT !.status = "pending",
                                     !.requests = reqs,
                                     !.calls = [i \in 1..n |-> first + i],
                                     !.values = [i \in 1..n |-> NoResult],
                                     !.remaining = n]
    IN /\ batch[b].status = "idle"
       /\ \A a \in Batches : a < b => batch[a].status # "idle"
       /\ n <= FreeCalls
       /\ dec' = started
       /\ batch' = [batch EXCEPT ![b] =
             IF ~decInitialized \/ ~signer
             THEN [pending EXCEPT !.status = "rejected", !.rejected = TRUE,
                                  !.error = IF ~decInitialized THEN NotInitializedError
                                            ELSE SignerRequiredError]
             ELSE IF n = 0 THEN [pending EXCEPT !.status = "resolved"]
             ELSE pending]
          /\ UNCHANGED <<lifecycleVars, outerVars, encryptVars, publicVars, decBuilt, now>>

\* batchUserDecrypt(reqs): requests.map starts every userDecrypt call, in index
\* order, each up to its first suspension; Promise.all then waits on them.
BatchUserDecrypt(b, reqs) ==
    LET n == Len(reqs)
        first == UsedCalls
        started == [k \in DCalls |->
                      IF k > first /\ k <= first + n
                      THEN UdEntered(reqs[k - first], b, k - first)
                      ELSE dec[k]]
        pending == [IdleBatch EXCEPT !.status = "pending",
                                     !.requests = reqs,
                                     !.calls = [i \in 1..n |-> first + i],
                                     !.values = [i \in 1..n |-> NoResult],
                                     !.remaining = n]
    IN /\ batch[b].status = "idle"
       /\ \A a \in Batches : a < b => batch[a].status # "idle"
       /\ n <= FreeCalls
       /\ dec' = started
       /\ batch' = [batch EXCEPT ![b] =
             IF n = 0 THEN [pending EXCEPT !.status = "resolved"]
             ELSE IF started[first + 1].result = "err"
             THEN [pending EXCEPT !.status = "rejected", !.rejected = TRUE,
                                  !.error = started[first + 1].error]
             ELSE pending]
          /\ UNCHANGED <<lifecycleVars, outerVars, encryptVars, publicVars, decBuilt, now>>

\* import('fhevmjs') resolved: createInstance({chainId, networkUrl, gatewayUrl, aclAddress}) is called.
UdImportDone(k) ==
    /\ dec[k].pc = "import"
    /\ dec' = [dec EXCEPT ![k].pc = "create", ![k].created = DecInstanceConfig]
    /\ UNCHANGED <<lifecycleVars, outerVars, encryptVars, publicVars, batch, decBuilt, now>>

UdImportFails(k) ==
    /\ dec[k].pc = "import"
    /\ RejectCall(k, ImportFailed)
    /\ UNCHANGED <<lifecycleVars, outerVars, encryptVars, publicVars, decBuilt>>

\* UdCreateDone with the await of signer.signTypedData forgotten: reencrypt is
\* called at once, with no signature yet.
UdCreateDoneNoAwait(k) ==
    /\ dec[k].pc = "create"
    /\ decBuilt' = decBuilt + 1
    /\ dec' = [dec EXCEPT ![k].pc = "gateway", ![k].instance = k,
                          ![k].eip712 = CreateEIP712(dec[k].req.contractAddress,
                                                     dec[k].req.userAddress),
                          ![k].submitted = Payload(dec[k].req, NoSignature),
                          ![k].derivedOn = k, ![k].submittedOn = k,
                          ![k].steps = @ \o <<"construct", "derive", "submit">>]
    /\ UNCHANGED <<lifecycleVars, outerVars, encryptVars, publicVars, batch, now>>

\* UdCreateDone with the instance kept in a field of the service: the first call
\* that needs one constructs it, the others take it from the field.
UdCreateDoneCached(k) ==
    /\ dec[k].pc = "create"
    /\ LET have == {j \in DCalls : dec[j].instance # 0}
           inst == IF have = {} THEN k ELSE dec[CHOOSE j \in have : TRUE].instance
       IN /\ decBuilt' = IF have = {} THEN decBuilt + 1 ELSE decBuilt
          /\ dec' = [dec EXCEPT ![k].pc = "sign", ![k].instance = inst,
                                ![k].derivedOn = inst,
                                ![k].eip712 = CreateEIP712(dec[k].req.contractAddress,
                                                           dec[k].req.userAddress),
                                ![k].steps = @ \o <<"construct", "derive">>]
    /\ UNCHANGED <<lifecycleVars, outerVars, encryptVars, publicVars, batch, now>>

\* createInstance resolved with this call's own instance (a local of the call, named
\* here by the call): createEIP712 derives the typed data from the request and
\* signer.signTypedData is called on it.
UdCreateDone(k) ==
    /\ dec[k].pc = "create"
    /\ decBuilt' = decBuilt + 1
    /\ dec' = [dec EXCEPT ![k].pc = "sign", ![k].instance = k, ![k].derivedOn = k,
                          ![k].eip712 = CreateEIP712(dec[k].req.contractAddress,
                                                     dec[k].req.userAddress),
                          ![k].steps = @ \o <<"construct", "derive">>]
    /\ UNCHANGED <<lifecycleVars, outerVars, encryptVars, publicVars, batch, now>>

UdCreateFails(k) ==
    /\ dec[k].pc = "create"
    /\ RejectCall(k, BackendUnreachable)
    /\ UNCHANGED <<lifecycleVars, outerVars, encryptVars, publicVars, decBuilt>>

\* createInstance resolved but createEIP712 threw.
UdDeriveFails(k) ==
    /\ dec[k].pc = "create"
    /\ decBuilt' = decBuilt + 1
    /\ dec' = [dec EXCEPT ![k].pc = "done", ![k].result = "err",
                          ![k].error = DecryptionError(DeriveFailed),
                          ![k].instance = k,
                          ![k].steps = Append(@, "construct")]
    /\ batch' = PromiseAllRejected(batch, dec[k].batch, dec[k].idx, DecryptionError(DeriveFailed))
    /\ UNCHANGED <<lifecycleVars, outerVars, encryptVars, publicVars, now>>

\* UdSignDone with the typed data kept in a field of the service, shared by the
\* calls: the signature is over the data of the latest call that derived some.
UdSignDoneSharedData(k) ==
    /\ dec[k].pc = "sign"
    /\ LET last == CHOOSE j \in DCalls :
                       /\ dec[j].eip712 # NoData
                       /\ \A i \in DCalls : i > j => dec[i].eip712 = NoData
           sig == SignTypedData(dec[last].eip712)
       IN dec' = [dec EXCEPT ![k].pc = "gateway", ![k].signature = sig,
                             ![k].submitted = Payload(dec[k].req, sig),
                             ![k].submittedOn = dec[k].instance,
                             ![k].steps = @ \o <<"sign", "submit">>]
    /\ UNCHANGED <<lifecycleVars, outerVars, encryptVars, publicVars, batch, decBuilt, now>>

\* UdSignDone testing the initialized flag again after the await.
UdSignDoneRechecks(k) ==
    /\ dec[k].pc = "sign"
    /\ LET sig == SignTypedData(dec[k].eip712)
       IN dec' = IF decInitialized
                 THEN [dec EXCEPT ![k].pc = "gateway", ![k].signature = sig,
                                  ![k].submitted = Payload(dec[k].req, sig),
                                  ![k].submittedOn = dec[k].instance,
                                  ![k].steps = @ \o <<"sign", "submit">>]
                 ELSE [dec EXCEPT ![k].pc = "done", ![k].result = "err",
                                  ![k].error = NotInitializedError]
    /\ UNCHANGED <<lifecycleVars, outerVars, encryptVars, publicVars, batch, decBuilt, now>>

\* The signer answered: instance.reencrypt(handle, contractAddress, userAddress,
\* signature) is called, the request goes to the gateway.
UdSignDone(k) ==
    /\ dec[k].pc = "sign"
    /\ LET sig == SignTypedData(dec[k].eip712)
       IN dec' = [dec EXCEPT ![k].pc = "gateway", ![k].signature = sig,
                             ![k].submitted = Payload(dec[k].req, sig),
                             ![k].submittedOn = dec[k].instance,
                             ![k].steps = @ \o <<"sign", "submit">>]
    /\ UNCHANGED <<lifecycleVars, outerVars, encryptVars, publicVars, batch, decBuilt, now>>

UdSignFails(k) ==
    /\ dec[k].pc = "sign"
    /\ RejectCall(k, SignatureRefused)
    /\ UNCHANGED <<lifecycleVars, outerVars, encryptVars, publicVars, decBuilt>>

\* The gateway answered with the plaintext.
UdGatewayDone(k) ==
    /\ dec[k].pc = "gateway"
    /\ Fulfil(k, Plaintext(dec[k].submitted.handle))
    /\ UNCHANGED <<lifecycleVars, outerVars, encryptVars, publicVars, decBuilt>>

UdGatewayFails(k) ==
    /\ dec[k].pc = "gateway"
    /\ RejectCall(k, GatewayRefused)
    /\ UNCHANGED <<lifecycleVars, outerVars, encryptVars, publicVars, decBuilt>>

\* ------------------------------------------------------------------ EncryptionService: encrypt
\* EncryptOptions { contract: Contract | string, userAddress }: the contract is
\* given as an address string or as a Contract object with a target.
OptsA == [contract |-> [kind |-> "string", value |-> "0xA", target |-> ""],
          userAddress |-> "0xU1"]
OptsB == [contract |-> [kind |-> "Contract", value |-> "", target |-> "0xB"],
          userAddress |-> "0xU2"]
EncryptOptions == {OptsA, OptsB}
NoOptions == [contract |-> [kind |-> "", value |-> "", target |-> ""], userAddress |-> ""]

\* typeof options.contract === 'string' ? options.contract : options.contract.target
ContractAddress(contract) ==
    IF contract.kind = "string" THEN contract.value ELSE contract.target

\* A JavaScript number or boolean passed as the value: its text, its sign and the
\* bit length of its magnitude (2**32 needs 33 bits).
NoValue == [name |-> "", neg |-> FALSE, bits |-> 0]
MinusOne == [name |-> "-1", neg |-> TRUE, bits |-> 1]
Five == [name |-> "5", neg |-> FALSE, bits |-> 3]
TwoTo32 == [name |-> "2**32", neg |-> FALSE, bits |-> 33]
True == [name |-> "true", neg |-> FALSE, bits |-> 1]

\* The builder operation each method calls on its session.
AddOpCopied(method) ==
    CASE method = "encryptU8" -> "add8"
      [] method = "encryptU16" -> "add16"
      [] method = "encryptU32" -> "add32"
      [] method = "encryptU64" -> "add32"
      [] method = "encryptBool" -> "addBool"

AddOp(method) ==
    CASE method = "encryptU8" -> "add8"
      [] method = "encryptU16" -> "add16"
      [] method = "encryptU32" -> "add32"
      [] method = "encryptU64" -> "add64"
      [] method = "encryptBool" -> "addBool"

\* The value domain of each builder operation: an unsigned integer of its width.
OpBits(op) ==
    CASE op = "add8" -> 8
      [] op = "add16" -> 16
      [] op = "add32" -> 32
      [] op = "add64" -> 64
      [] op = "addBool" -> 1
FitsWidth(op, v) == ~v.neg /\ v.bits <= OpBits(op)

\* The calls studied: every method with a value of its type, encryptU32 also with
\* the two values next to its bounds, encryptU64 with a value that add32 would
\* not hold, and createEncryptedInput itself.
EncryptInputs ==
    {[method |-> "encryptU8", value |-> Five],
     [method |-> "encryptU16", value |-> Five],
     [method |-> "encryptU32", value |-> Five],
     [method |-> "encryptU32", value |-> MinusOne],
     [method |-> "encryptU32", value |-> TwoTo32],
     [method |-> "encryptU64", value |-> TwoTo32],
     [method |-> "encryptBool", value |-> True],
     [method |-> "createEncryptedInput", value |-> NoValue]}

EncNotInitializedError == <<"Encryption service not initialized">>
BackendRangeError == <<"backend: value out of range">>
SealFailed == <<"backend: encrypt threw">>

\* instance.createEncryptedInput(contractAddress, userAddress): a new builder on
\* the backend, which keeps the operations called on it, in order.
NewSession(inst, contractAddress, userAddress) ==
    [instance |-> inst, contractAddress |-> contractAddress,
     userAddress |-> userAddress, calls |-> <<>>]

\* EncryptedInput { handles, inputProof } as the builder's encrypt() makes it:
\* one handle for each value added, and a proof over the session's contract, user
\* and handles.
NoEncryptedInput == [handles |-> <<>>,
                     inputProof |-> [contractAddress |-> "", userAddress |-> "", count |-> 0]]
IsAdd(c) == c.op # "encrypt"
BackendEncrypt(sid, s) ==
    LET n == Len(SelectSeq(s.calls, IsAdd))
    IN [handles |-> [i \in 1..n |-> [session |-> sid, index |-> i]],
        inputProof |-> [contractAddress |-> s.contractAddress,
                        userAddress |-> s.userAddress, count |-> n]]

IdleECall == [pc |-> "idle", method |-> "", value |-> NoValue, options |-> NoOptions,
              entryInit |-> FALSE, input |-> 0, result |-> "none",
              output |-> NoEncryptedInput, error |-> <<>>]

\* createEncryptedInput, called directly or as the first statement of an encrypt
\* method: `if (!this.initialized || !this.instance) throw`, else the session
\* sid is opened on the instance. An encrypt method then waits at its await.
EcEntered(method, value, options, sid) ==
    LET call == [IdleECall EXCEPT !.method = method, !.value = value,
                                  !.options = options, !.entryInit = isInitialized]
    IN IF ~encInitialized \/ ~Truthy(encInstance)
       THEN [call EXCEPT !.pc = "done", !.result = "err", !.error = EncNotInitializedError]
       ELSE IF method = "createEncryptedInput"
       THEN [call EXCEPT !.pc = "done", !.result = "ok", !.input = sid]
       ELSE [call EXCEPT !.pc = "opened", !.input = sid]

\* encryptU8 .. encryptBool(value, options), or createEncryptedInput(contractAddress,
\* userAddress), up to the first suspension.
EncryptCall(e, method, value, options) ==
    /\ enc[e].pc = "idle"
    /\ \A d \in ECalls : d < e => enc[d].pc # "idle"
    /\ method = "createEncryptedInput" => options.contract.kind = "string"
    /\ LET sid == Len(sessions) + 1
           call == EcEntered(method, value, options, sid)
       IN /\ enc' = [enc EXCEPT ![e] = call]
          /\ sessions' = IF call.input = 0 THEN sessions
                         ELSE Append(sessions,
                                     NewSession(encInstance, ContractAddress(options.contract),
                                                options.userAddress))
    /\ UNCHANGED <<lifecycleVars, outerVars, decryptVars, publicVars>>

\* After the await: input.addN(value); return input.encrypt(). The backend takes
\* the value (whether or not it fits the width: it may truncate) and seals.
EncryptSeal(e) ==
    /\ enc[e].pc = "opened"
    /\ LET sid == enc[e].input
           op == AddOp(enc[e].method)
           sealed == sessions[sid].calls
                       \o <<[op |-> op, value |-> enc[e].value],
                            [op |-> "encrypt", value |-> NoValue]>>
           after == [sessions EXCEPT ![sid].calls = sealed]
       IN /\ sessions' = after
          /\ enc' = [enc EXCEPT ![e].pc = "done", ![e].result = "ok",
                                ![e].output = BackendEncrypt(sid, after[sid])]
    /\ UNCHANGED <<lifecycleVars, outerVars, decryptVars, publicVars>>

\* After the await: input.addN(value) throws, as the backend may do for a value
\* outside the width; nothing catches it, the call rejects with the backend's error.
EncryptAddThrows(e) ==
    /\ enc[e].pc = "opened"
    /\ ~FitsWidth(AddOp(enc[e].method), enc[e].value)
    /\ sessions' = [sessions EXCEPT ![enc[e].input].calls =
                       Append(@, [op |-> AddOp(enc[e].method), value |-> enc[e].value])]
    /\ enc' = [enc EXCEPT ![e].pc = "done", ![e].result = "err",
                          ![e].error = BackendRangeError]
    /\ UNCHANGED <<lifecycleVars, outerVars, decryptVars, publicVars>>

\* After the await: the value is added and input.encrypt() throws; the call
\* rejects with the backend's error.
EncryptSealFails(e) ==
    /\ enc[e].pc = "opened"
    /\ sessions' = [sessions EXCEPT ![enc[e].input].calls =
                       @ \o <<[op |-> AddOp(enc[e].method), value |-> enc[e].value],
                              [op |-> "encrypt", value |-> NoValue]>>]
    /\ enc' = [enc EXCEPT ![e].pc = "done", ![e].result = "err", ![e].error = SealFailed]
    /\ UNCHANGED <<lifecycleVars, outerVars, decryptVars, publicVars>>

\* ------------------------------------------------------------------ DecryptionService: publicDecrypt
\* The view methods of the contract given to publicDecrypt and what they return;
\* "missing" is a name the contract does not have.
ViewMethods == {"getBalance", "getTotal", "missing"}
ViewArgs == {<<>>, <<"0xU1">>}
ViewReturn(methodName, args) ==
    (IF methodName = "getBalance" THEN 70 ELSE 80) + Len(args)

PublicDecryptionError(cause) == Wrap("Failed to decrypt public value", cause)
NotAFunction == <<"contract[methodName] is not a function">>
ViewReverted == <<"view call rejected">>

IdlePCall == [pc |-> "idle", methodName |-> "", args |-> <<>>, entryInit |-> FALSE,
              viewCalls |-> 0, result |-> "none", value |-> NoResult, error |-> <<>>]

\* PdEntered with the signer check of userDecrypt copied into publicDecrypt.
PdEnteredSignerCheck(methodName, args) ==
    LET call == [IdlePCall EXCEPT !.methodName = methodName, !.args = args,
                                  !.entryInit = decInitialized]
    IN IF ~decInitialized
       THEN [call EXCEPT !.pc = "done", !.result = "err", !.error = NotInitializedError]
       ELSE IF ~signer
       THEN [call EXCEPT !.pc = "done", !.result = "err", !.error = SignerRequiredError]
       ELSE IF methodName = "missing"
       THEN [call EXCEPT !.pc = "done", !.result = "err",
                         !.error = PublicDecryptionError(NotAFunction)]
       ELSE [call EXCEPT !.pc = "view", !.viewCalls = 1]

\* publicDecrypt up to its first suspension: the initialized check, thrown
\* outside the try, then contract[methodName](...args) is called and awaited.
PdEntered(methodName, args) ==
    LET call == [IdlePCall EXCEPT !.methodName = methodName, !.args = args,
                                  !.entryInit = decInitialized]
    IN IF ~decInitialized
       THEN [call EXCEPT !.pc = "done", !.result = "err", !.error = NotInitializedError]
       ELSE IF methodName = "missing"
       THEN [call EXCEPT !.pc = "done", !.result = "err",
                         !.error = PublicDecryptionError(NotAFunction)]
       ELSE [call EXCEPT !.pc = "view", !.viewCalls = 1]

PublicDecrypt(q, methodName, args) ==
    /\ pub[q].pc = "idle"
    /\ \A d \in PCalls : d < q => pub[d].pc # "idle"
    /\ pub' = [pub EXCEPT ![q] = PdEntered(methodName, args)]
    /\ UNCHANGED <<lifecycleVars, outerVars, decryptVars, encryptVars>>

\* The view call resolved: return { value: encryptedValue, timestamp: Date.now() }.
PdViewDone(q) ==
    /\ pub[q].pc = "view"
    /\ \E t \in {now, now + 1} :
          /\ pub' = [pub EXCEPT ![q].pc = "done", ![q].result = "ok",
                                ![q].value = DecryptionResult(
                                    ViewReturn(pub[q].methodName, pub[q].args), t)]
          /\ now' = t
    /\ UNCHANGED <<lifecycleVars, outerVars, encryptVars, dec, batch, decBuilt>>

\* The view call rejected: the catch wraps it.
PdViewFails(q) ==
    /\ pub[q].pc = "view"
    /\ pub' = [pub EXCEPT ![q].pc = "done", ![q].result = "err",
                          ![q].error = PublicDecryptionError(ViewReverted)]
    /\ UNCHANGED <<lifecycleVars, outerVars, decryptVars, encryptVars>>

\* ------------------------------------------------------------------ ContractHelper
\* The optional signer argument of createContract: absent, null, or a Signer.
ExplicitSigners == {NotGiven, "null", "explicitSigner"}
NoSigner == "<no signer>"

\* client.getSigner(): the configured Signer, or undefined.
ClientSigner == IF getSigner THEN "clientSigner" ELSE NotGiven

\* The signer chosen with the operands exchanged: client.getSigner() || signer.
SignerToUseClientFirst(explicit) ==
    IF ClientSigner = NotGiven THEN explicit ELSE ClientSigner

\* `signer || this.client.getSigner()`: undefined and null are falsy.
SignerToUse(explicit) == IF explicit \in {NotGiven, "null"} THEN ClientSigner ELSE explicit

ContractSignerRequiredError == <<"Signer required to create contract instance">>
IdleMCall == [pc |-> "idle", explicit |-> NotGiven, clientSigner |-> NotGiven,
              result |-> "none", runner |-> NoSigner, error |-> <<>>]

\* createContract(address, abi, signer?): synchronous; throws without a signer,
\* else returns new Contract(address, abi, signerToUse).
CreateContract(m, explicit) ==
    /\ made[m].pc = "idle"
    /\ \A n \in MCalls : n < m => made[n].pc # "idle"
    /\ made' = [made EXCEPT ![m] =
                  IF SignerToUse(explicit) \in {NotGiven, "null"}
                  THEN [IdleMCall EXCEPT !.pc = "done", !.explicit = explicit,
                                         !.clientSigner = ClientSigner,
                                         !.result = "err",
                                         !.error = ContractSignerRequiredError]
                  ELSE [IdleMCall EXCEPT !.pc = "done", !.explicit = explicit,
                                         !.clientSigner = ClientSigner,
                                         !.result = "ok",
                                         !.runner = SignerToUse(explicit)]]
    /\ UNCHANGED <<lifecycleVars, decryptVars, encryptVars, publicVars, config, read, tx,
                   hook, utilVars>>

\* The contract: transfer sends a transaction, getBalance is a view
\* function (what it resolves to has no wait()), missing is not in the ABI.
SendsTransaction(methodName) == methodName = "transfer"

\* encryptedInputs (typed any): two handles, no handle, or an object without handles.
NoHandles == <<"<no handles property>">>
TwoHandles == [handles |-> <<"h1", "h2">>, inputProof |-> "proof"]
EmptyHandles == [handles |-> <<>>, inputProof |-> "proof"]
Malformed == [handles |-> NoHandles, inputProof |-> NotGiven]
TxCalls ==
    {[methodName |-> "transfer", inputs |-> TwoHandles, extra |-> <<"0xTo", "memo">>],
     [methodName |-> "transfer", inputs |-> TwoHandles, extra |-> <<>>],
     [methodName |-> "transfer", inputs |-> EmptyHandles, extra |-> <<>>],
     [methodName |-> "transfer", inputs |-> Malformed, extra |-> <<"0xTo", "memo">>],
     [methodName |-> "getBalance", inputs |-> TwoHandles, extra |-> <<>>],
     [methodName |-> "missing", inputs |-> TwoHandles, extra |-> <<"0xTo", "memo">>]}

\* handles[0]: undefined when the array is empty.
FirstHandle(handles) == IF Len(handles) = 0 THEN NotGiven ELSE handles[1]
\* handles[0] as handles[handles.length - 1].
LastHandle(handles) == IF Len(handles) = 0 THEN NotGiven ELSE handles[Len(handles)]

TxError == "Failed to send encrypted transaction"
NoHandlesTypeError == <<"TypeError: cannot read properties of undefined (reading '0')">>
NoWaitTypeError == <<"TypeError: tx.wait is not a function">>
CallReverted == <<"contract call rejected">>
ConfirmationFailed == <<"transaction reverted">>
NoReceipt == [kind |-> "none", of |-> 0]
Receipt(t) == [kind |-> "receipt", of |-> t]

IdleTCall == [pc |-> "idle", methodName |-> "", inputs |-> TwoHandles, extra |-> <<>>,
              invoked |-> <<>>, waits |-> 0, result |-> "none", receipt |-> NoReceipt,
              error |-> <<>>]

\* TxEntered passing the last handle.
TxEnteredLastHandle(methodName, inputs, extra) ==
    LET call == [IdleTCall EXCEPT !.methodName = methodName, !.inputs = inputs,
                                  !.extra = extra]
    IN IF methodName = "missing"
       THEN [call EXCEPT !.pc = "done", !.result = "err",
                         !.error = Wrap(TxError, NotAFunction)]
       ELSE IF inputs.handles = NoHandles
       THEN [call EXCEPT !.pc = "done", !.result = "err",
                         !.error = Wrap(TxError, NoHandlesTypeError)]
       ELSE [call EXCEPT !.pc = "calling",
                         !.invoked = <<[method |-> methodName,
                                        args |-> <<LastHandle(inputs.handles),
                                                   inputs.inputProof>> \o extra]>>]

\* The synchronous part of sendEncryptedTransaction: the arguments are evaluated
\* and the method called inside the try; a TypeError there goes to the catch.
TxEntered(methodName, inputs, extra) ==
    LET call == [IdleTCall EXCEPT !.methodName = methodName, !.inputs = inputs,
                                  !.extra = extra]
    IN IF methodName = "missing"
       THEN [call EXCEPT !.pc = "done", !.result = "err",
                         !.error = Wrap(TxError, NotAFunction)]
       ELSE IF inputs.handles = NoHandles
       THEN [call EXCEPT !.pc = "done", !.result = "err",
                         !.error = Wrap(TxError, NoHandlesTypeError)]
       ELSE [call EXCEPT !.pc = "calling",
                         !.invoked = <<[method |-> methodName,
                                        args |-> <<FirstHandle(inputs.handles),
                                                   inputs.inputProof>> \o extra]>>]

SendEncryptedTransaction(t, methodName, inputs, extra) ==
    /\ tx[t].pc = "idle"
    /\ \A u \in TCalls : u < t => tx[u].pc # "idle"
    /\ tx' = [tx EXCEPT ![t] = TxEntered(methodName, inputs, extra)]
    /\ UNCHANGED <<lifecycleVars, decryptVars, encryptVars, publicVars, config, read, made,
                   hook, utilVars>>

\* TxSubmitted returning the transaction response without waiting for it.
TxSubmittedNoWait(t) ==
    /\ tx[t].pc = "calling"
    /\ tx' = [tx EXCEPT ![t] = [@ EXCEPT !.pc = "done", !.result = "ok",
                                         !.receipt = Receipt(t)]]
    /\ UNCHANGED <<lifecycleVars, decryptVars, encryptVars, publicVars, config, read, made,
                   hook, utilVars>>

\* The method's promise resolves: tx.wait() is called, on a transaction
\* response; what a view function resolved to has no wait().
TxSubmitted(t) ==
    /\ tx[t].pc = "calling"
    /\ tx' = [tx EXCEPT ![t] =
                IF SendsTransaction(tx[t].methodName)
                THEN [@ EXCEPT !.pc = "waiting", !.waits = @ + 1]
                ELSE [@ EXCEPT !.pc = "done", !.result = "err",
                               !.error = Wrap(TxError, NoWaitTypeError)]]
    /\ UNCHANGED <<lifecycleVars, decryptVars, encryptVars, publicVars, config, read, made,
                   hook, utilVars>>

\* The method's promise rejects (revert on estimation, user refusal, bad argument).
TxSubmitFails(t) ==
    /\ tx[t].pc = "calling"
    /\ tx' = [tx EXCEPT ![t].pc = "done", ![t].result = "err",
                        ![t].error = Wrap(TxError, CallReverted)]
    /\ UNCHANGED <<lifecycleVars, decryptVars, encryptVars, publicVars, config, read, made,
                   hook, utilVars>>

\* tx.wait() resolves: the receipt is returned.
TxConfirmed(t) ==
    /\ tx[t].pc = "waiting"
    /\ tx' = [tx EXCEPT ![t].pc = "done", ![t].result = "ok", ![t].receipt = Receipt(t)]
    /\ UNCHANGED <<lifecycleVars, decryptVars, encryptVars, publicVars, config, read, made,
                   hook, utilVars>>

\* tx.wait() rejects.
TxConfirmFails(t) ==
    /\ tx[t].pc = "waiting"
    /\ tx' = [tx EXCEPT ![t].pc = "done", ![t].result = "err",
                        ![t].error = Wrap(TxError, ConfirmationFailed)]
    /\ UNCHANGED <<lifecycleVars, decryptVars, encryptVars, publicVars, config, read, made,
                   hook, utilVars>>

\* ------------------------------------------------------------------ useFhevmClient
\* The config prop: null, or one of two FhevmConfig objects (the dependency
\* array [config] compares by identity).
NullConfig == 0
HookConfigs == {NullConfig, 1, 2}

\* A client is named by the effect run that created it; 0 is null.
NoClient == 0

\* One run of the effect body for a non-null config: its closure variables
\* (`mounted`, the `client` of the render it belongs to), its createFhevmClient
\* promise, and the client that promise made.
UnusedEffect == [state |-> "unused", config |-> NullConfig, mounted |-> FALSE,
                 captured |-> NoClient, cleaned |-> FALSE, client |-> "none"]

\* The component before it is mounted: useState(null), useState(false), useState(null).
NoComponent == [phase |-> "new", config |-> NullConfig, client |-> NoClient,
                isLoading |-> FALSE, error |-> 0, active |-> 0,
                effects |-> [e \in Effects |-> UnusedEffect]]

EffectsRun == Cardinality({e \in Effects : hook.effects[e].state # "unused"})

\* client.dispose() on the client effect run c created.
DisposeClient(effects, c) ==
    IF c = NoClient THEN effects ELSE [effects EXCEPT ![c].client = "disposed"]

\* The cleanup the last effect run returned, if it returned one:
\* `mounted = false; if (client) client.dispose();` with the client it captured.
Cleanup(h) ==
    IF h.active = 0 THEN h
    ELSE [h EXCEPT !.active = 0,
                   !.effects = DisposeClient([h.effects EXCEPT ![h.active].mounted = FALSE,
                                                               ![h.active].cleaned = TRUE],
                                             h.effects[h.active].captured)]

\* The effect body for the config of this render: nothing for null; else
\* setIsLoading(true) and createFhevmClient(config) is started.
RunEffect(h, cfg) ==
    IF cfg = NullConfig THEN [h EXCEPT !.config = cfg]
    ELSE LET e == EffectsRun + 1
         IN [h EXCEPT !.config = cfg, !.isLoading = TRUE, !.active = e,
                      !.effects[e] = [UnusedEffect EXCEPT !.state = "pending", !.config = cfg,
                                                          !.mounted = TRUE,
                                                          !.captured = h.client]]

\* The component mounts: first render, then the effect.
Mount(cfg) ==
    /\ hook.phase = "new"
    /\ hook' = [RunEffect(hook, cfg) EXCEPT !.phase = "mounted"]
    /\ UNCHANGED <<lifecycleVars, decryptVars, encryptVars, publicVars, config, read,
                   helperVars, utilVars>>

\* The component is rendered with another config: the previous cleanup runs,
\* then the effect body.
ConfigChange(cfg) ==
    /\ hook.phase = "mounted"
    /\ cfg # hook.config
    /\ cfg # NullConfig => EffectsRun < MaxEffects
    /\ hook' = RunEffect(Cleanup(hook), cfg)
    /\ UNCHANGED <<lifecycleVars, decryptVars, encryptVars, publicVars, config, read,
                   helperVars, utilVars>>

\* The component unmounts: the cleanup runs.
Unmount ==
    /\ hook.phase = "mounted"
    /\ hook' = [Cleanup(hook) EXCEPT !.phase = "unmounted"]
    /\ UNCHANGED <<lifecycleVars, decryptVars, encryptVars, publicVars, config, read,
                   helperVars, utilVars>>

\* createFhevmClient(config) resolves with a new initialized client: then() and
\* finally() update the state only while `mounted`.
CreateResolves(e) ==
    /\ hook.effects[e].state = "pending"
    /\ hook' = IF hook.effects[e].mounted
               THEN [hook EXCEPT !.effects[e].state = "resolved",
                                 !.effects[e].client = "live",
                                 !.client = e, !.error = 0, !.isLoading = FALSE]
               ELSE [hook EXCEPT !.effects[e].state = "resolved",
                                 !.effects[e].client = "live"]
    /\ UNCHANGED <<lifecycleVars, decryptVars, encryptVars, publicVars, config, read,
                   helperVars, utilVars>>

\* createFhevmClient(config) rejects: catch() and finally().
CreateRejects(e) ==
    /\ hook.effects[e].state = "pending"
    /\ hook' = IF hook.effects[e].mounted
               THEN [hook EXCEPT !.effects[e].state = "rejected",
                                 !.error = e, !.isLoading = FALSE]
               ELSE [hook EXCEPT !.effects[e].state = "rejected"]
    /\ UNCHANGED <<lifecycleVars, decryptVars, encryptVars, publicVars, config, read,
                   helperVars, utilVars>>

\* ------------------------------------------------------------------ retry
\* maxRetries is a number, kept here as twice its value so that halves are
\* at hand: -1, -0.5, 0, 1, 1.5, 2, 2.5, ... MaxAttempts.
RetryCounts == {n \in -2..(2 * MaxAttempts) : n # 1}
RetryDelays == {0, 1000}

\* `let lastError: any` has no initializer: undefined until a catch assigns it;
\* the error of the n-th invocation of fn is named n.
UndefinedError == 0

IdleRetry == [pc |-> "idle", twice |-> 0, delay |-> 0, i |-> 0, invoked |-> 0,
              log |-> <<>>, lastError |-> UndefinedError, result |-> "none",
              value |-> 0, error |-> UndefinedError]

\* The head of the for loop with the counter at i, tested before every turn
\* and at least once.
LoopDoWhile(r, i) ==
    IF i = 0 \/ 2 * i < r.twice
    THEN [r EXCEPT !.i = i, !.pc = "calling", !.invoked = @ + 1, !.log = Append(@, "call")]
    ELSE [r EXCEPT !.i = i, !.pc = "done", !.result = "err", !.error = r.lastError]

\* The head of the for loop with the counter at i: `i < maxRetries`, then
\* fn() is called and awaited; after the loop, `throw lastError`.
Loop(r, i) ==
    IF 2 * i < r.twice
    THEN [r EXCEPT !.i = i, !.pc = "calling", !.invoked = @ + 1, !.log = Append(@, "call")]
    ELSE [r EXCEPT !.i = i, !.pc = "done", !.result = "err", !.error = r.lastError]

\* The catch with the delay taken after every failure.
CaughtAlwaysWaits(r) ==
    [r EXCEPT !.lastError = r.invoked, !.pc = "sleeping", !.log = Append(@, "sleep")]

\* The catch: lastError = error; the delay only if `i < maxRetries - 1`, else
\* on to the next turn of the loop.
Caught(r) ==
    LET c == [r EXCEPT !.lastError = r.invoked]
    IN IF 2 * r.i < r.twice - 2
       THEN [c EXCEPT !.pc = "sleeping", !.log = Append(@, "sleep")]
       ELSE Loop(c, r.i + 1)

\* retry(fn, maxRetries, delay) up to its first suspension.
Retry(twice, delay) ==
    /\ rt.pc = "idle"
    /\ rt' = Loop([IdleRetry EXCEPT !.twice = twice, !.delay = delay], 0)
    /\ UNCHANGED <<lifecycleVars, decryptVars, encryptVars, publicVars, config, read,
                   helperVars, hook, fac, use>>

\* fn's promise fulfils: `return await fn()`.
FnResolves ==
    /\ rt.pc = "calling"
    /\ rt' = [rt EXCEPT !.pc = "done", !.result = "ok", !.value = rt.invoked]
    /\ UNCHANGED <<lifecycleVars, decryptVars, encryptVars, publicVars, config, read,
                   helperVars, hook, fac, use>>

\* fn's promise rejects (or fn throws): the catch.
FnRejects ==
    /\ rt.pc = "calling"
    /\ rt' = Caught(rt)
    /\ UNCHANGED <<lifecycleVars, decryptVars, encryptVars, publicVars, config, read,
                   helperVars, hook, fac, use>>

\* The timer of the delay fires: i++ and the next turn of the loop.
TimerFires ==
    /\ rt.pc = "sleeping"
    /\ rt' = Loop(rt, rt.i + 1)
    /\ UNCHANGED <<lifecycleVars, decryptVars, encryptVars, publicVars, config, read,
                   helperVars, hook, fac, use>>

\* ------------------------------------------------------------------ factory
\* A factory call: `returned` tells that the caller holds the client.
IdleFactory == [pc |-> "idle", kind |-> "none", result |-> "none", returned |-> FALSE,
                error |-> <<>>]

\* createFhevmClient(config): new FhevmClient(config), then client.initialize()
\* up to its first suspension.
CreateFhevmClient ==
    /\ fac.pc = "idle"
    /\ InitEntered(1)
    /\ fac' = [fac EXCEPT !.pc = "initializing", !.kind = "async"]
    /\ UNCHANGED <<decryptVars, encryptVars, publicVars, config, read, helperVars, hook,
                   rt, use>>

\* FactoryResolves without the await: `client.initialize(); return client`.
FactoryResolvesNoAwait ==
    /\ fac.pc = "initializing"
    /\ fac' = [fac EXCEPT !.pc = "done", !.result = "ok", !.returned = TRUE]
    /\ UNCHANGED <<lifecycleVars, decryptVars, encryptVars, publicVars, config, read,
                   helperVars, hook, rt, use>>

\* `await client.initialize()` fulfilled: `return client`.
FactoryResolves ==
    /\ fac.pc = "initializing"
    /\ init[1].pc = "done"
    /\ init[1].result = "ok"
    /\ fac' = [fac EXCEPT !.pc = "done", !.result = "ok", !.returned = TRUE]
    /\ UNCHANGED <<lifecycleVars, decryptVars, encryptVars, publicVars, config, read,
                   helperVars, hook, rt, use>>

\* `await client.initialize()` rejected: the async function rejects with the same
\* error; the client stays a local of the call.
FactoryRejects ==
    /\ fac.pc = "initializing"
    /\ init[1].pc = "done"
    /\ init[1].result = "err"
    /\ fac' = [fac EXCEPT !.pc = "done", !.result = "err", !.error = init[1].error]
    /\ UNCHANGED <<lifecycleVars, decryptVars, encryptVars, publicVars, config, read,
                   helperVars, hook, rt, use>>

\* createFhevmClientSync(config): return new FhevmClient(config).
CreateFhevmClientSync ==
    /\ fac.pc = "idle"
    /\ fac' = [fac EXCEPT !.pc = "done", !.kind = "sync", !.result = "ok",
                          !.returned = TRUE]
    /\ UNCHANGED <<lifecycleVars, decryptVars, encryptVars, publicVars, config, read,
                   helperVars, hook, rt, use>>

\* ------------------------------------------------------------------ useFhevmEncrypt, useFhevmDecrypt
MaxHookOps == 2
UCalls == 1..MaxHookOps
HookKinds == {"useFhevmEncrypt", "useFhevmDecrypt"}
HookMethods(h) ==
    IF h = "useFhevmEncrypt" THEN {"encryptU32", "encryptU64", "encryptBool"}
    ELSE {"userDecrypt"}
NoError == "null"
ClientNotInitializedError == "Client not initialized"
\* What the client's operation may reject with.
OpErrors == {"Encryption service not initialized", "Failed to decrypt value"}

IdleOp == [pc |-> "idle", method |-> "none", returned |-> "none", rejected |-> FALSE]
IdleUse == [h \in HookKinds |->
              [busy |-> FALSE, error |-> NoError, ops |-> [u \in UCalls |-> IdleOp]]]

\* A callback of the hook called, up to its first await; hasClient tells whether
\* the hook was rendered with a client.
HookCall(h, u, method, hasClient) ==
    /\ use[h].ops[u].pc = "idle"
    /\ \A v \in UCalls : v < u => use[h].ops[v].pc # "idle"
    /\ method \in HookMethods(h)
    /\ use' = IF ~hasClient
              THEN [use EXCEPT ![h].error = ClientNotInitializedError,
                               ![h].ops[u] = [IdleOp EXCEPT !.pc = "done", !.method = method,
                                                            !.returned = "null"]]
              ELSE [use EXCEPT ![h].busy = TRUE,
                               ![h].error = NoError,
                               ![h].ops[u] = [IdleOp EXCEPT !.pc = "inflight",
                                                            !.method = method]]
    /\ UNCHANGED <<lifecycleVars, decryptVars, encryptVars, publicVars, config, read,
                   helperVars, hook, rt, fac>>

\* The client's operation fulfilled: the value is returned; finally clears the flag.
HookOpResolves(h, u) ==
    /\ use[h].ops[u].pc = "inflight"
    /\ use' = [use EXCEPT ![h].busy = FALSE,
                          ![h].ops[u].pc = "done",
                          ![h].ops[u].returned = "value"]
    /\ UNCHANGED <<lifecycleVars, decryptVars, encryptVars, publicVars, config, read,
                   helperVars, hook, rt, fac>>

\* The client's operation rejected: catch records the error and returns null;
\* finally clears the flag.
HookOpRejects(h, u, err) ==
    /\ use[h].ops[u].pc = "inflight"
    /\ use' = [use EXCEPT ![h].busy = FALSE,
                          ![h].error = err,
                          ![h].ops[u].pc = "done",
                          ![h].ops[u].returned = "null"]
    /\ UNCHANGED <<lifecycleVars, decryptVars, encryptVars, publicVars, config, read,
                   helperVars, hook, rt, fac>>

\* ------------------------------------------------------------------ specification
\* new FhevmClient(config): flags false, handle undefined; the signer is optional.
Init ==
    /\ isInitialized = FALSE
    /\ encInitialized = FALSE
    /\ encInstance = Undefined
    /\ decInitialized = FALSE
    /\ signer \in BOOLEAN
    /\ encBuilt = 0
    /\ init = [c \in ICalls |-> IdleCall]
    /\ disposed = FALSE
    /\ lastEvent = "none"
    /\ dec = [k \in DCalls |-> IdleDCall]
    /\ batch = [b \in Batches |-> IdleBatch]
    /\ decBuilt = 0
    /\ now = 1
    /\ enc = [e \in ECalls |-> IdleECall]
    /\ sessions = <<>>
    /\ pub = [q \in PCalls |-> IdlePCall]
    /\ config = Constructor(DefaultGiven)
    /\ read = NoRead
    /\ made = [m \in MCalls |-> IdleMCall]
    /\ tx = [t \in TCalls |-> IdleTCall]
    /\ hook = NoComponent
    /\ rt = IdleRetry
    /\ fac = IdleFactory
    /\ use = IdleUse

Next ==
    \/ \E c \in ICalls : InitEnter(c)
    \/ \E c \in ICalls : EncImportDone(c)
    \/ \E c \in ICalls : EncImportFails(c)
    \/ \E c \in ICalls : EncCreateDone(c)
    \/ \E c \in ICalls : EncCreateFails(c)
    \/ \E c \in ICalls : DecInitialize(c)
    \/ \E c \in ICalls : InitFinish(c)
    \/ Dispose

Spec == Init /\ [][Next]_vars

\* The client after `await createFhevmClient(config)`, or `await client.initialize()`
\* on a new client: one initialize() call has run alone and resolved.
ReadyClient ==
    /\ isInitialized = TRUE /\ encInitialized = TRUE /\ decInitialized = TRUE
    /\ encInstance = Inst(1)
    /\ encBuilt = 1
    /\ init = [c \in ICalls |->
                 IF c = 1 THEN [IdleCall EXCEPT !.pc = "done", !.result = "ok", !.attempts = 1,
                                                !.created = InstanceConfig,
                                                !.built = 1, !.setReady = TRUE]
                 ELSE IdleCall]
    /\ disposed = FALSE
    /\ lastEvent = "initOk"

\* The services are studied on a client that is new or has been initialized;
\* dispose() may come at any time.
InitDecrypt ==
    /\ config = Constructor(DefaultGiven)
    /\ \/ ReadyClient
       \/ /\ isInitialized = FALSE /\ encInitialized = FALSE /\ decInitialized = FALSE
          /\ encInstance = Undefined
          /\ encBuilt = 0
          /\ init = [c \in ICalls |-> IdleCall]
          /\ disposed = FALSE
          /\ lastEvent = "none"
    /\ signer \in BOOLEAN
    /\ dec = [k \in DCalls |-> IdleDCall]
    /\ batch = [b \in Batches |-> IdleBatch]
    /\ decBuilt = 0
    /\ now = 1
    /\ enc = [e \in ECalls |-> IdleECall]
    /\ sessions = <<>>
    /\ pub = [q \in PCalls |-> IdlePCall]
    /\ read = NoRead
    /\ made = [m \in MCalls |-> IdleMCall]
    /\ tx = [t \in TCalls |-> IdleTCall]
    /\ hook = NoComponent
    /\ rt = IdleRetry
    /\ fac = IdleFactory
    /\ use = IdleUse

RequestLists == UNION {[1..n -> Requests] : n \in 0..MaxDecryptCalls}

NextDecrypt ==
    \/ \E k \in DCalls, req \in Requests : UserDecrypt(k, req)
    \/ \E b \in Batches, reqs \in RequestLists : BatchUserDecrypt(b, reqs)
    \/ \E k \in DCalls : UdImportDone(k)
    \/ \E k \in DCalls : UdImportFails(k)
    \/ \E k \in DCalls : UdCreateDone(k)
    \/ \E k \in DCalls : UdCreateFails(k)
    \/ \E k \in DCalls : UdDeriveFails(k)
    \/ \E k \in DCalls : UdSignDone(k)
    \/ \E k \in DCalls : UdSignFails(k)
    \/ \E k \in DCalls : UdGatewayDone(k)
    \/ \E k \in DCalls : UdGatewayFails(k)
    \/ Dispose

SpecDecrypt == InitDecrypt /\ [][NextDecrypt]_vars

\* Encryption on a client that is new or has been initialized, dispose() coming
\* at any time.
NextEncrypt ==
    \/ \E e \in ECalls, i \in EncryptInputs, o \in EncryptOptions :
          EncryptCall(e, i.method, i.value, o)
    \/ \E e \in ECalls : EncryptSeal(e)
    \/ \E e \in ECalls : EncryptAddThrows(e)
    \/ \E e \in ECalls : EncryptSealFails(e)
    \/ Dispose

SpecEncrypt == InitDecrypt /\ [][NextEncrypt]_vars

\* publicDecrypt on a client that is new or has been initialized, with or
\* without signer, dispose() coming at any time.
NextPublic ==
    \/ \E q \in PCalls, m \in ViewMethods, a \in ViewArgs : PublicDecrypt(q, m, a)
    \/ \E q \in PCalls : PdViewDone(q)
    \/ \E q \in PCalls : PdViewFails(q)
    \/ Dispose

SpecPublic == InitDecrypt /\ [][NextPublic]_vars

\* Every operation of the client on one new client: one call of each kind, the
\* reads and dispose() coming at any time.
OpsEncryptInputs ==
    {i \in EncryptInputs : i.method = "encryptU32" /\ i.value \in {Five, MinusOne}}

NextOps ==
    \/ InitEnter(1)
    \/ EncImportDone(1)
    \/ EncImportFails(1)
    \/ EncCreateDone(1)
    \/ EncCreateFails(1)
    \/ DecInitialize(1)
    \/ InitFinish(1)
    \/ Dispose
    \/ \E op \in ReadOps : Read(op)
    \/ \E i \in OpsEncryptInputs : EncryptCall(1, i.method, i.value, OptsA)
    \/ EncryptSeal(1)
    \/ EncryptAddThrows(1)
    \/ EncryptSealFails(1)
    \/ UserDecrypt(1, ReqA)
    \/ UdImportDone(1)
    \/ UdImportFails(1)
    \/ UdCreateDone(1)
    \/ UdCreateFails(1)
    \/ UdDeriveFails(1)
    \/ UdSignDone(1)
    \/ UdSignFails(1)
    \/ UdGatewayDone(1)
    \/ UdGatewayFails(1)
    \/ PublicDecrypt(1, "getBalance", <<>>)
    \/ PdViewDone(1)
    \/ PdViewFails(1)

SpecOps == Init /\ [][NextOps]_vars

\* A client constructed from any of the configurations, with or without signer:
\* its lifecycle, the reads, and one call of each service.
InitConfig ==
    /\ isInitialized = FALSE
    /\ encInitialized = FALSE
    /\ encInstance = Undefined
    /\ decInitialized = FALSE
    /\ signer \in BOOLEAN
    /\ encBuilt = 0
    /\ init = [c \in ICalls |-> IdleCall]
    /\ disposed = FALSE
    /\ lastEvent = "none"
    /\ dec = [k \in DCalls |-> IdleDCall]
    /\ batch = [b \in Batches |-> IdleBatch]
    /\ decBuilt = 0
    /\ now = 1
    /\ enc = [e \in ECalls |-> IdleECall]
    /\ sessions = <<>>
    /\ pub = [q \in PCalls |-> IdlePCall]
    /\ \E given \in GivenConfigs : config = Constructor(given)
    /\ read = NoRead
    /\ made = [m \in MCalls |-> IdleMCall]
    /\ tx = [t \in TCalls |-> IdleTCall]
    /\ hook = NoComponent
    /\ rt = IdleRetry
    /\ fac = IdleFactory
    /\ use = IdleUse

NextConfig ==
    \/ InitEnter(1)
    \/ EncImportDone(1)
    \/ EncImportFails(1)
    \/ EncCreateDone(1)
    \/ EncCreateFails(1)
    \/ DecInitialize(1)
    \/ InitFinish(1)
    \/ Dispose
    \/ \E op \in ReadOps : Read(op)
    \/ EncryptCall(1, "encryptU32", Five, OptsA)
    \/ EncryptSeal(1)
    \/ EncryptSealFails(1)
    \/ PublicDecrypt(1, "getBalance", <<>>)
    \/ PdViewDone(1)
    \/ PdViewFails(1)

SpecConfig == InitConfig /\ [][NextConfig]_vars

\* The ContractHelper of a new client, with or without configured signer.
NextContract ==
    \/ \E m \in MCalls, explicit \in ExplicitSigners : CreateContract(m, explicit)
    \/ \E t \in TCalls, call \in TxCalls :
          SendEncryptedTransaction(t, call.methodName, call.inputs, call.extra)
    \/ \E t \in TCalls : TxSubmitted(t)
    \/ \E t \in TCalls : TxSubmitFails(t)
    \/ \E t \in TCalls : TxConfirmed(t)
    \/ \E t \in TCalls : TxConfirmFails(t)

SpecContract == Init /\ [][NextContract]_vars

\* A component using useFhevmClient: mounted once, re-rendered with other
\* configs, unmounted; the creations settle at any time.
NextHook ==
    \/ \E cfg \in HookConfigs : Mount(cfg)
    \/ \E cfg \in HookConfigs : ConfigChange(cfg)
    \/ Unmount
    \/ \E e \in Effects : CreateResolves(e)
    \/ \E e \in Effects : CreateRejects(e)

SpecHook == Init /\ [][NextHook]_vars

\* Every createFhevmClient promise settles: its reactions are run by the event
\* loop; renders and unmounts are up to the application.
SpecHookFair ==
    /\ Init
    /\ [][NextHook]_vars
    /\ \A e \in Effects : WF_vars(CreateResolves(e) \/ CreateRejects(e))

\* One userDecrypt and one publicDecrypt call on a client that is new or has
\* been initialized, with or without signer, dispose() coming at any time.
NextDecryptEntry ==
    \/ \E req \in Requests : UserDecrypt(1, req)
    \/ UdImportDone(1)
    \/ UdImportFails(1)
    \/ UdCreateDone(1)
    \/ UdCreateFails(1)
    \/ UdDeriveFails(1)
    \/ UdSignDone(1)
    \/ UdSignFails(1)
    \/ UdGatewayDone(1)
    \/ UdGatewayFails(1)
    \/ \E m \in ViewMethods, a \in ViewArgs : PublicDecrypt(1, m, a)
    \/ PdViewDone(1)
    \/ PdViewFails(1)
    \/ Dispose

SpecDecryptEntry == InitDecrypt /\ [][NextDecryptEntry]_vars

\* A client constructed from any of the configurations: one initialize() and one
\* userDecrypt call, dispose() coming at any time.
NextNetworks ==
    \/ InitEnter(1)
    \/ EncImportDone(1)
    \/ EncImportFails(1)
    \/ EncCreateDone(1)
    \/ EncCreateFails(1)
    \/ DecInitialize(1)
    \/ InitFinish(1)
    \/ Dispose
    \/ \E req \in Requests : UserDecrypt(1, req)
    \/ UdImportDone(1)
    \/ UdImportFails(1)
    \/ UdCreateDone(1)
    \/ UdCreateFails(1)
    \/ UdDeriveFails(1)
    \/ UdSignDone(1)
    \/ UdSignFails(1)
    \/ UdGatewayDone(1)
    \/ UdGatewayFails(1)

SpecNetworks == InitConfig /\ [][NextNetworks]_vars

\* A client made by one of the factories: the caller has it once the factory has
\* returned it, and may then call initialize() and dispose() as on any client.
NextFactory ==
    \/ CreateFhevmClient
    \/ CreateFhevmClientSync
    \/ FactoryResolves
    \/ FactoryRejects
    \/ \E c \in ICalls : fac.returned /\ InitEnter(c)
    \/ \E c \in ICalls : EncImportDone(c)
    \/ \E c \in ICalls : EncImportFails(c)
    \/ \E c \in ICalls : EncCreateDone(c)
    \/ \E c \in ICalls : EncCreateFails(c)
    \/ \E c \in ICalls : DecInitialize(c)
    \/ \E c \in ICalls : InitFinish(c)
    \/ fac.returned /\ Dispose

SpecFactory == Init /\ [][NextFactory]_vars

\* The callbacks of useFhevmEncrypt and useFhevmDecrypt, called with or without a
\* client; the client's operations settle either way.
NextUse ==
    \/ \E h \in HookKinds, u \in UCalls, c \in BOOLEAN :
          \E m \in HookMethods(h) : HookCall(h, u, m, c)
    \/ \E h \in HookKinds, u \in UCalls : HookOpResolves(h, u)
    \/ \E h \in HookKinds, u \in UCalls, err \in OpErrors : HookOpRejects(h, u, err)

SpecUse == Init /\ [][NextUse]_vars

\* One retry() call around an fn every call of which settles, either way; the
\* timer of a delay fires.
NextRetry ==
    \/ \E twice \in RetryCounts, delay \in RetryDelays : Retry(twice, delay)
    \/ FnResolves
    \/ FnRejects
    \/ TimerFires

SpecRetry ==
    /\ Init
    /\ [][NextRetry]_vars
    /\ WF_vars(FnResolves \/ FnRejects)
    /\ WF_vars(TimerFires)

\* ------------------------------------------------------------------ lifecycle claims
Entering(c) == init[c].pc = "idle" /\ init'[c].pc # "idle"
Failing(c) == InFlight(c) /\ init'[c].result = "err"
Causes == {ImportFailed, BackendUnreachable}
DisposedState == <<FALSE, FALSE, Null, FALSE>>

\* C1: as long as dispose() has not been called, initialize() calls, overlapping
\* or not, construct the EncryptionService backend at most once: a call that
\* starts while another is in flight awaits it and builds nothing itself.
C1_ConstructedOnce == ~disposed => encBuilt <= 1

\* C2: an initialize() call that starts after another has resolved successfully,
\* with no dispose() since, resolves at once with success, constructs nothing
\* and leaves the client and service state unchanged.
C2_SecondInitializeNoOp ==
    [][\A c \in ICalls :
        (/\ Entering(c)
         /\ \E d \in ICalls : init[d].result = "ok" /\ ~init[d].disposedAfter)
        => /\ init'[c].pc = "done"
           /\ init'[c].result = "ok"
           /\ init'[c].built = 0
           /\ UNCHANGED <<clientState, encBuilt>>]_vars

\* Two calls in sequence, no dispose: the first built the backend, the second nothing.
C2_Witness ==
    /\ ~disposed
    /\ init[1].result = "ok" /\ init[1].built = 1 /\ init[1].solo
    /\ init[2].result = "ok" /\ init[2].built = 0 /\ init[2].solo
    /\ encBuilt = 1 /\ isInitialized /\ hasKeys

\* C3: no initialize() call that starts after dispose() constructs a backend
\* instance or sets the client Ready again.
C3_DisposedIsTerminal ==
    \A c \in ICalls : init[c].afterDispose => init[c].built = 0 /\ ~init[c].setReady

\* C4: when dispose() ran while an initialize() call was suspended, then after
\* that call has finished (and no other initialize() was made) the client is
\* not initialized and the EncryptionService holds no backend handle.
C4_DisposeWhileInitializing ==
    \A c \in ICalls :
        (/\ init[c].disposedDuring
         /\ init[c].pc = "done"
         /\ \A d \in ICalls \ {c} : init[d].pc = "idle")
        => ~isInitialized /\ ~Truthy(encInstance)

\* C5: a failing initialize() call rejects with the client's error wrapping the
\* service's error wrapping the cause, has changed nothing (in particular the
\* step that fails changes nothing) and, when no other call or dispose overlapped
\* it, leaves isInitialized false and hasKeys false; the initialize() made right
\* after such a failure attempts the construction again; and a call whose
\* construction succeeded resolves with success, the client initialized.
C5_FailedInitialize ==
    [][\A c \in ICalls :
        /\ Failing(c) =>
              /\ UNCHANGED clientState
              /\ \E cause \in Causes : init'[c].error = InitError(cause)
              /\ init'[c].built = 0 /\ ~init'[c].setReady
              /\ init[c].solo => ~isInitialized' /\ ~hasKeys'
        /\ (Entering(c) /\ lastEvent = "initFailedSolo") => init'[c].pc = "import"
        /\ (init[c].built = 1 /\ init[c].pc # "done" /\ init'[c].pc = "done")
              => init'[c].result = "ok" /\ isInitialized']_vars

\* A failed call, then a retry that built the backend and made the client Ready.
C5_Witness ==
    /\ ~disposed
    /\ init[1].result = "err" /\ init[1].solo
    /\ init[2].result = "ok" /\ init[2].built = 1 /\ init[2].solo
    /\ isInitialized /\ hasKeys

\* C6: right after dispose(), called once or several times in a row, in whatever
\* state the client was (never initialized included), the client is in one and
\* the same state: every flag false, the handle null, so isInitialized and
\* hasKeys are false.
C6_DisposeIdempotent ==
    lastEvent \in {"dispose", "disposeAgain"}
    => clientState = DisposedState /\ ~isInitialized /\ ~hasKeys

\* dispose() called twice in a row on a client that had been initialized.
C6_Witness ==
    /\ lastEvent = "disposeAgain"
    /\ \E c \in ICalls : init[c].setReady
    /\ clientState = DisposedState

\* ------------------------------------------------------------------ decryption claims
IsPrefix(s, t) == Len(s) <= Len(t) /\ s = SubSeq(t, 1, Len(s))
ProtocolSteps == <<"construct", "derive", "sign", "submit", "answer", "return">>
Started(k) == dec[k].pc # "idle"
NoNetworkCall(k) ==
    /\ dec[k].steps = <<>>
    /\ dec[k].instance = 0
    /\ dec[k].signature = NoSignature
    /\ dec[k].submitted = NoPayload

\* C7: a batchUserDecrypt call that resolves returns a list as long as the request
\* list whose i-th element is the DecryptionResult of the userDecrypt call made
\* for the i-th request (the plaintext of that request's handle), whatever the
\* order in which the calls completed.
C7_BatchOrder ==
    \A b \in Batches :
        batch[b].status = "resolved" =>
            /\ Len(batch[b].result) = Len(batch[b].requests)
            /\ \A i \in 1..Len(batch[b].requests) :
                  LET k == batch[b].calls[i]
                  IN /\ dec[k].req = batch[b].requests[i]
                     /\ dec[k].result = "ok"
                     /\ batch[b].result[i] = dec[k].value
                     /\ batch[b].result[i].value = Plaintext(batch[b].requests[i].handle)

\* A resolved batch [a, b] of different requests in which b completed before a.
C7_Witness ==
    \E b \in Batches :
        /\ batch[b].status = "resolved"
        /\ Len(batch[b].result) >= 2
        /\ batch[b].requests[1] # batch[b].requests[2]
        /\ batch[b].result[1].timestamp > batch[b].result[2].timestamp

\* C8: as soon as one userDecrypt call of a batch has failed, the batch call is
\* rejected, with an error and no result list, and it stays so: a batch with a
\* failed call never resolves, whatever the position of the failed call and
\* whatever the others do.
C8_AllOrNothing ==
    \A b \in Batches :
        /\ (\E i \in 1..Len(batch[b].calls) : dec[batch[b].calls[i]].result = "err")
             => /\ batch[b].status = "rejected"
                /\ batch[b].error # <<>>
        /\ batch[b].rejected => batch[b].status = "rejected"
        /\ batch[b].status # "resolved" => batch[b].result = <<>>

\* A rejected batch in which one call failed at the signature or the gateway
\* and every other call, at least one, succeeded.
C8_Witness ==
    \E b \in Batches :
        /\ Len(batch[b].calls) >= 2
        /\ batch[b].status = "rejected"
        /\ \E i \in 1..Len(batch[b].calls) :
              /\ dec[batch[b].calls[i]].error \in {DecryptionError(SignatureRefused),
                                                   DecryptionError(GatewayRefused)}
              /\ \A j \in 1..Len(batch[b].calls) \ {i} :
                    dec[batch[b].calls[j]].result = "ok"

\* C9 as stated: every userDecrypt call on a client without signer has rejected
\* with the signer-required error on entry, having constructed no backend,
\* requested no signature and submitted nothing to the gateway.
C9_NoSignerRejects ==
    \A k \in DCalls :
        (~signer /\ Started(k))
        => /\ dec[k].pc = "done" /\ dec[k].result = "err"
           /\ dec[k].error = SignerRequiredError
           /\ NoNetworkCall(k)

\* C9 amended: every userDecrypt call on a client without signer has rejected on
\* entry with no network call made; the error is the signer-required error when
\* the DecryptionService was initialized at the call, the not-initialized error
\* when it was not.
C9_NoSignerRejectsInitialized ==
    \A k \in DCalls :
        (~signer /\ Started(k))
        => /\ dec[k].pc = "done" /\ dec[k].result = "err"
           /\ dec[k].error = IF dec[k].entryInit THEN SignerRequiredError
                                                 ELSE NotInitializedError
           /\ NoNetworkCall(k)

\* A call on an initialized client without signer, rejected for the missing signer.
C9_Witness ==
    /\ ~signer
    /\ decBuilt = 0
    /\ \E k \in DCalls : dec[k].entryInit /\ dec[k].error = SignerRequiredError

\* C10: the steps of every userDecrypt call are a prefix of: construct the backend,
\* derive the typed data, obtain the signature, submit to the gateway, get the
\* answer, return. The typed data is derived from the request's contractAddress
\* and userAddress on the call's own instance; what is submitted is the request's
\* handle, contractAddress and userAddress with the signature obtained over that
\* typed data; a call that returned a result has gone through all the steps and
\* returns the gateway's answer for the request's handle.
C10_ProtocolOrder ==
    \A k \in DCalls :
        LET r == dec[k].req
            data == CreateEIP712(r.contractAddress, r.userAddress)
        IN /\ IsPrefix(dec[k].steps, ProtocolSteps)
           /\ dec[k].eip712 # NoData => dec[k].eip712 = data /\ dec[k].instance # 0
           /\ dec[k].submitted # NoPayload =>
                 /\ dec[k].signature = SignTypedData(data)
                 /\ dec[k].submitted = Payload(r, dec[k].signature)
           /\ dec[k].result = "ok" =>
                 /\ dec[k].steps = ProtocolSteps
                 /\ dec[k].value.value = Plaintext(r.handle)

\* Two calls that went through the whole protocol, interleaved.
C10_Witness ==
    \E k, j \in DCalls :
        /\ k # j
        /\ dec[k].result = "ok" /\ dec[k].steps = ProtocolSteps
        /\ dec[j].pc = "gateway" /\ dec[j].req # dec[k].req

\* C11: what a userDecrypt call submits to the gateway is its own request's handle,
\* contractAddress and userAddress, with a signature made over the typed data of
\* that same contractAddress and userAddress; under any interleaving of the calls,
\* direct or of a batch, it is never the signature obtained for a request with
\* another contract or user.
C11_SignatureOfOwnRequest ==
    \A k \in DCalls :
        dec[k].submitted # NoPayload =>
            LET sent == dec[k].submitted
            IN /\ sent.handle = dec[k].req.handle
               /\ sent.contractAddress = dec[k].req.contractAddress
               /\ sent.userAddress = dec[k].req.userAddress
               /\ sent.signature # NoSignature
               /\ sent.signature.over.message =
                     [contract |-> dec[k].req.contractAddress, user |-> dec[k].req.userAddress]
               /\ \A j \in DCalls \ {k} :
                     (dec[j].signature # NoSignature /\ dec[j].req # dec[k].req)
                     => sent.signature # dec[j].signature

\* Two calls of one batch, for different requests, both submitted to the gateway
\* and neither answered yet.
C11_Witness ==
    \E k, j \in DCalls :
        /\ k < j
        /\ dec[k].batch # 0 /\ dec[k].batch = dec[j].batch
        /\ dec[k].req # dec[j].req
        /\ dec[k].pc = "gateway" /\ dec[j].pc = "gateway"

\* What can fail while a userDecrypt call waits at each of its awaits.
FailureAt(pc) ==
    CASE pc = "import" -> {ImportFailed}
      [] pc = "create" -> {BackendUnreachable, DeriveFailed}
      [] pc = "sign" -> {SignatureRefused}
      [] pc = "gateway" -> {GatewayRefused}
      [] OTHER -> {}

\* C12: when a step of a userDecrypt call fails (the import or construction of the
\* backend, the derivation of the typed data, the signature request, the gateway
\* round trip), the call rejects with the decryption error wrapping the cause of
\* that step, no DecryptionResult is returned, no later step of the protocol is
\* executed (then or afterwards: a finished call does nothing more), and the
\* flags and handle of the client and its services are as they were.
C12_FailureRejects ==
    [][\A k \in DCalls :
        /\ (dec[k].pc \notin {"idle", "done"} /\ dec'[k].result = "err")
              => /\ dec'[k].pc = "done"
                 /\ \E cause \in FailureAt(dec[k].pc) :
                       dec'[k].error = DecryptionError(cause)
                 /\ dec'[k].value = NoResult
                 /\ dec'[k].signature = dec[k].signature
                 /\ dec'[k].submitted = dec[k].submitted
                 /\ IsPrefix(dec'[k].steps, ProtocolSteps) /\ Len(dec'[k].steps) <= 4
                 /\ UNCHANGED clientState
        /\ dec[k].pc = "done" => dec'[k] = dec[k]]_vars

\* One call failed at the gateway, its signature obtained and submitted; another
\* failed at the derivation of the typed data, its backend constructed.
C12_Witness ==
    \E k, j \in DCalls :
        /\ dec[k].error = DecryptionError(GatewayRefused)
        /\ dec[k].submitted # NoPayload /\ dec[k].value = NoResult
        /\ dec[j].error = DecryptionError(DeriveFailed)
        /\ dec[j].instance # 0 /\ dec[j].signature = NoSignature

\* ------------------------------------------------------------------ encryption claims
NeverInitialized == \A c \in ICalls : init[c].result # "ok"
EncEntering(e) == enc[e].pc = "idle" /\ enc'[e].pc # "idle"

C14_RangeEnforced ==
    \A e \in ECalls :
        (/\ enc[e].method = "encryptU32"
         /\ enc[e].value \in {MinusOne, TwoTo32}
         /\ enc[e].entryInit)
        => /\ enc[e].pc = "done" /\ enc[e].result = "err"
           /\ enc[e].error \notin {BackendRangeError, SealFailed}
           /\ enc[e].input = 0

\* The add operation of the width each method is named after.
MatchingAdd(method) ==
    CASE method = "encryptU8" -> "add8"
      [] method = "encryptU16" -> "add16"
      [] method = "encryptU32" -> "add32"
      [] method = "encryptU64" -> "add64"
      [] method = "encryptBool" -> "addBool"
      [] OTHER -> ""

\* C15: every encryptU8, encryptU16, encryptU32, encryptU64 or encryptBool call
\* made on a Ready client has opened one session, on the service's backend
\* instance and for the contract address and user of its options; no other call
\* has that session and there are as many sessions as calls that opened one.
\* Nothing is called on the session before the call resumes; a call that has
\* returned called on it the add of its own width with its value, once, then
\* encrypt(), once, and returns an EncryptedInput with one handle and a proof for
\* that contract and user; a call that failed went no further than those two.
C15_OneSessionPerCall ==
    /\ \A e \in ECalls :
          (enc[e].entryInit /\ enc[e].method # "createEncryptedInput")
          => /\ enc[e].input \in 1..Len(sessions)
             /\ LET ses == sessions[enc[e].input]
                    add == [op |-> MatchingAdd(enc[e].method), value |-> enc[e].value]
                    seal == [op |-> "encrypt", value |-> NoValue]
                IN /\ ses.instance = Inst(1)
                   /\ ses.contractAddress = ContractAddress(enc[e].options.contract)
                   /\ ses.userAddress = enc[e].options.userAddress
                   /\ enc[e].pc = "opened" => ses.calls = <<>>
                   /\ enc[e].result = "err" => ses.calls \in {<<add>>, <<add, seal>>}
                   /\ enc[e].result = "ok" =>
                         /\ ses.calls = <<add, seal>>
                         /\ Len(enc[e].output.handles) = 1
                         /\ enc[e].output.inputProof # NoEncryptedInput.inputProof
                         /\ enc[e].output.inputProof.contractAddress = ses.contractAddress
                         /\ enc[e].output.inputProof.userAddress = ses.userAddress
    /\ \A e, f \in ECalls :
          (e # f /\ enc[e].input # 0) => enc[e].input # enc[f].input
    /\ Len(sessions) = Cardinality({e \in ECalls : enc[e].input # 0})

\* Two calls for the same contract and user, both started before either resumed:
\* encryptU64(2**32) has returned, encryptBool(true) has its own session, untouched.
C15_Witness ==
    /\ enc[1].method = "encryptU64" /\ enc[1].result = "ok" /\ enc[1].input = 1
    /\ enc[2].method = "encryptBool" /\ enc[2].pc = "opened" /\ enc[2].input = 2
    /\ enc[1].options = enc[2].options
    /\ sessions[1].calls = <<[op |-> "add64", value |-> TwoTo32],
                             [op |-> "encrypt", value |-> NoValue]>>
    /\ sessions[2].calls = <<>>

\* ------------------------------------------------------------------ state claims
NoInitializeCalled == \A c \in ICalls : init[c].pc = "idle"

\* C16: as long as no initialize() call has been made on the client, getState()
\* reports isInitialized false and hasKeys false.
C16_FreshState ==
    NoInitializeCalled => ~getState.isInitialized /\ ~getState.hasKeys

\* The client as constructed: flags false, the handle still undefined.
C16_Witness ==
    /\ NoInitializeCalled /\ ~disposed
    /\ encInstance = Undefined
    /\ getState = [isInitialized |-> FALSE, network |-> "localhost",
                   userAddress |-> Undefined, hasKeys |-> FALSE]

\* C17: in every reachable state hasKeys() is true only if the EncryptionService
\* is initialized and holds a backend instance; it is false as long as no
\* initialize() has constructed the backend (none made, or all failed so far),
\* after an initialize() that failed on its own, and right after dispose().
C17_HasKeysOnlyWhenReady ==
    /\ hasKeys => encInitialized /\ Truthy(encInstance)
    /\ (\A c \in ICalls : init[c].built = 0) => ~hasKeys
    /\ lastEvent = "initFailedSolo" => ~hasKeys
    /\ lastEvent \in {"dispose", "disposeAgain"} => ~hasKeys

\* hasKeys true after a first initialize() failed and a second one succeeded.
C17_Witness ==
    /\ hasKeys /\ encInstance = Inst(1)
    /\ init[1].result = "err" /\ init[2].built = 1

\* C18: over the client's lifetime the EncryptionService constructs at most one
\* backend instance, and the handle it holds is never another instance than the
\* first one constructed.
C18_OneBackend ==
    /\ encBuilt <= 1
    /\ Truthy(encInstance) => encInstance = Inst(1)

\* ------------------------------------------------------------------ backend instances of decryption
\* C19: every userDecrypt call that got its backend constructed has an instance
\* no other call has, derived its typed data on it and submitted to the gateway
\* through it; a call that returned a result has one; as many instances were
\* constructed for decryption as there are such calls; and the EncryptionService's
\* own instance and count are what initialize() and dispose() made them, no
\* userDecrypt having constructed, replaced or cleared the handle.
C19_OwnInstancePerCall ==
    /\ \A k \in DCalls :
          /\ dec[k].steps # <<>> => dec[k].instance # 0
          /\ dec[k].result = "ok" => dec[k].instance # 0
          /\ dec[k].eip712 # NoData => dec[k].derivedOn = dec[k].instance
          /\ dec[k].submitted # NoPayload => dec[k].submittedOn = dec[k].instance
          /\ dec[k].instance # 0 =>
                \A j \in DCalls \ {k} : dec[j].instance # dec[k].instance
    /\ decBuilt = Cardinality({k \in DCalls : dec[k].instance # 0})
    /\ encBuilt = Cardinality({c \in ICalls : init[c].built = 1})
    /\ encInstance = IF disposed THEN Null
                     ELSE IF encBuilt = 1 THEN Inst(1) ELSE Undefined

\* Two calls for the same request returned on a Ready client: two instances
\* constructed for them, the EncryptionService still holding its one.
C19_Witness ==
    /\ dec[1].result = "ok" /\ dec[2].result = "ok"
    /\ dec[1].req = dec[2].req
    /\ dec[1].instance # dec[2].instance
    /\ decBuilt = 2
    /\ encBuilt = 1 /\ encInstance = Inst(1)

\* ------------------------------------------------------------------ publicDecrypt claims
\* C20: a publicDecrypt call constructs no backend instance, requests no signature
\* and sends nothing to the gateway (no userDecrypt step is taken on its behalf);
\* it makes at most one contract view call, and exactly one when it returns: what
\* it returns is that call's return value with a timestamp; and whether the
\* client has a signer plays no part: on an initialized service the call is not
\* rejected on entry, a call for a method the contract has goes on to the view call.
C20_PublicDecryptViewOnly ==
    /\ decBuilt = 0
    /\ \A k \in DCalls : dec[k] = IdleDCall
    /\ \A q \in PCalls :
          /\ pub[q].viewCalls <= 1
          /\ pub[q].result = "ok" =>
                /\ pub[q].viewCalls = 1
                /\ pub[q].value.value = ViewReturn(pub[q].methodName, pub[q].args)
                /\ pub[q].value.timestamp \in 1..now
          /\ (pub[q].entryInit /\ pub[q].methodName # "missing")
                => /\ pub[q].viewCalls = 1
                   /\ pub[q].error \notin {NotInitializedError, SignerRequiredError}
          /\ pub[q].error # <<>> =>
                pub[q].error \in {NotInitializedError,
                                  PublicDecryptionError(NotAFunction),
                                  PublicDecryptionError(ViewReverted)}

\* On an initialized client without signer: one call returned the value of
\* getBalance("0xU1"), another is waiting for its view call.
C20_Witness ==
    /\ ~signer
    /\ pub[1].result = "ok" /\ pub[1].entryInit
    /\ pub[1].value.value = ViewReturn("getBalance", <<"0xU1">>)
    /\ pub[2].pc = "view" /\ pub[2].viewCalls = 1

\* ------------------------------------------------------------------ more lifecycle claims
\* C21: an initialize() call whose createInstance rejects ends there, rejected
\* with the client's error wrapping the EncryptionService's error wrapping the
\* cause; it has called createInstance once (neither the service nor the client
\* tries again), constructs nothing, changes no flag and no handle, and, when no
\* other call or dispose overlapped it, leaves the EncryptionService not
\* initialized and without backend handle. No call ever calls createInstance twice.
C21_ConstructionFailure ==
    [][\A c \in ICalls :
        /\ init'[c].attempts <= 1
        /\ (init[c].pc = "create" /\ init'[c].result = "err")
              => /\ init'[c].pc = "done"
                 /\ init'[c].error =
                       <<"Failed to initialize FHEVM client",
                         "Failed to initialize encryption service">> \o BackendUnreachable
                 /\ init'[c].attempts = 1 /\ init'[c].built = 0
                 /\ UNCHANGED <<clientState, encBuilt>>
                 /\ init[c].solo => ~encInitialized' /\ ~Truthy(encInstance')]_vars

\* The first initialize() on a new client, alone, failed at createInstance.
C21_Witness ==
    /\ init[1].result = "err" /\ init[1].solo /\ init[1].attempts = 1
    /\ init[1].error[3] = BackendUnreachable[1]
    /\ init[2].pc = "idle" /\ ~disposed
    /\ ~encInitialized /\ encInstance = Undefined /\ encBuilt = 0

\* ------------------------------------------------------------------ frame claims
ServiceStep == dec' # dec \/ batch' # batch \/ enc' # enc \/ sessions' # sessions
               \/ pub' # pub \/ read' # read
LifecycleStep == init' # init \/ disposed' # disposed \/ lastEvent' # lastEvent

\* C22: a step of an encrypt call, of a decrypt call or of a read (getState,
\* hasKeys, getPublicKey, isInitialized, the accessors), whether the call goes
\* on, succeeds or fails, leaves isInitialized, both services' initialized flags
\* and the EncryptionService handle as they were; whenever one of them changes,
\* the step is a slice of initialize() or dispose().
C22_LifecycleFrame ==
    [][/\ ServiceStep => UNCHANGED clientState
       /\ ~UNCHANGED clientState => LifecycleStep]_vars

\* A Ready client on which an encrypt call failed in the backend, a userDecrypt
\* and a publicDecrypt succeeded and getState was read.
C22_Witness ==
    /\ isInitialized /\ encInitialized /\ decInitialized /\ encInstance = Inst(1)
    /\ enc[1].result = "err" /\ enc[1].input = 1
    /\ dec[1].result = "ok"
    /\ pub[1].result = "ok"
    /\ read.op = "getState" /\ read.state.isInitialized /\ read.state.hasKeys

\* What the accessors return, and what a recorded accessor call returned.
AccessorsReturn(provider, network, gatewayUrl, aclAddress) ==
    /\ getProvider = provider /\ getNetwork = network
    /\ getGatewayUrl = gatewayUrl /\ getAclAddress = aclAddress
    /\ read.op = "getProvider" => read.text = provider
    /\ read.op = "getNetwork" => read.text = network
    /\ read.op = "getGatewayUrl" => read.text = gatewayUrl
    /\ read.op = "getAclAddress" => read.text = aclAddress
    /\ read.op \in ReadOps => ~read.threw

\* C23 as stated: in every state the accessors return the values given to the
\* constructor, the network being 'localhost' when none was given.
C23_AccessorsExact ==
    AccessorsReturn(config.given.provider,
                    IF config.given.network = NotGiven THEN "localhost"
                    ELSE config.given.network,
                    config.given.gatewayUrl, config.given.aclAddress)

\* C23, amended: in every state (before initialize, while initializing, Ready,
\* after dispose) the accessors return the values given to the constructor, the
\* network being 'localhost' when none or the empty string was given; no step of
\* any operation changes the configuration or the signer.
C23_AccessorsReturnConfig ==
    /\ [](AccessorsReturn(config.given.provider,
                          IF config.given.network \in {NotGiven, ""} THEN "localhost"
                          ELSE config.given.network,
                          config.given.gatewayUrl, config.given.aclAddress))
    /\ [][config' = config /\ signer' = signer
          /\ (read'.op = "getSigner" => read'.flag = signer)]_vars

\* A client given the empty network was initialized, then disposed, and
\* getNetwork() then returned 'localhost'.
C23_Witness ==
    /\ config.given.network = "" /\ config.given.aclAddress = "0xACL"
    /\ init[1].result = "ok" /\ disposed /\ ~isInitialized
    /\ read.op = "getNetwork" /\ read.text = "localhost"

\* ------------------------------------------------------------------ network resolution
TableEntry(network) ==
    CASE network = "sepolia" ->
           [chainId |-> JsNumber(11155111), url |-> JsString("https://sepolia.infura.io/v3/")]
      [] network = "mainnet" ->
           [chainId |-> JsNumber(1), url |-> JsString("https://mainnet.infura.io/v3/")]
      [] OTHER ->
           [chainId |-> JsNumber(31337), url |-> JsString("http://127.0.0.1:8545")]

\* C24: every initialize() call that has called createInstance passed it the
\* chain id and the URL of the table entry of the network given to the
\* constructor: the sepolia and mainnet entries for those two names, the
\* localhost entry for localhost, for every other string and for no network.
C24_NetworkTable ==
    \A c \in ICalls :
        init[c].attempts > 0
        => /\ init[c].created.chainId = TableEntry(config.given.network).chainId
           /\ init[c].created.networkUrl = TableEntry(config.given.network).url

\* ------------------------------------------------------------------ getPublicKey
\* C25: in every state getPublicKey() returns without throwing: undefined when
\* the service holds no backend handle (undefined before initialize() and after
\* a failed one, null after dispose()), the key of the handle's backend when it
\* holds one, which it does whenever it is initialized; and so did every
\* getPublicKey() call made.
C25_GetPublicKeyNeverThrows ==
    /\ ~getPublicKey.threw
    /\ encInstance \in {Undefined, Null} => getPublicKey.handle = Undefined
    /\ (NoInitializeCalled \/ lastEvent \in {"initFailedSolo", "dispose", "disposeAgain"})
          => getPublicKey.handle = Undefined
    /\ encInitialized => /\ Truthy(encInstance)
                         /\ getPublicKey.handle = PublicKey(encInstance)
    /\ read.op = "getPublicKey"
          => /\ ~read.threw
             /\ read.handle \in {Undefined} \union {PublicKey(Inst(n)) : n \in 1..encBuilt}

\* getPublicKey() was called on a client that had been Ready and was disposed.
C25_Witness ==
    /\ init[1].result = "ok" /\ disposed /\ encInstance = Null
    /\ read.op = "getPublicKey" /\ read.handle = Undefined /\ ~read.threw

\* ------------------------------------------------------------------ ContractHelper claims
\* C26: a sendEncryptedTransaction call invokes the named method at most once,
\* and when it does, with handles[0] and the proof first and the additional
\* arguments after them in their order; it calls wait() only on what that
\* invocation resolved to, once; it returns only the receipt wait() resolved to;
\* every failure on the way (no such method, the method rejecting, wait()
\* rejecting) rejects the call with the wrapped error and returns nothing.
C26_SendThenAwait ==
    \A t \in TCalls :
        LET call == tx[t] IN
        /\ Len(call.invoked) <= 1 /\ call.waits <= Len(call.invoked)
        /\ call.pc \in {"calling", "waiting"} => Len(call.invoked) = 1
        /\ Len(call.invoked) = 1
              => /\ call.invoked[1].method = call.methodName
                 /\ call.invoked[1].args =
                       <<FirstHandle(call.inputs.handles), call.inputs.inputProof>>
                          \o call.extra
        /\ call.pc = "calling" => call.waits = 0
        /\ call.result = "ok"
              => /\ Len(call.invoked) = 1 /\ call.waits = 1
                 /\ call.receipt = Receipt(t) /\ call.error = <<>>
        /\ call.result # "ok" => call.receipt = NoReceipt
        /\ call.result = "err"
              => /\ call.pc = "done"
                 /\ call.error[1] = TxError /\ Len(call.error) = 2
        /\ call.pc = "done" <=> call.result # "none"

\* One call with two handles and two more arguments was confirmed; another's
\* confirmation failed.
C26_Witness ==
    /\ tx[1].result = "ok" /\ tx[1].inputs = TwoHandles
    /\ tx[1].invoked = <<[method |-> "transfer", args |-> <<"h1", "proof", "0xTo", "memo">>]>>
    /\ tx[2].result = "err" /\ tx[2].waits = 1
    /\ tx[2].error = Wrap(TxError, ConfirmationFailed)

\* C27: a createContract call fails, with the signer-required error, exactly
\* when no explicit signer was passed (absent or null) and the client has no
\* configured signer; otherwise the contract is bound to the explicit signer
\* when one was passed, to the client's signer when not.
C27_SignerRequired ==
    \A m \in MCalls :
        made[m].pc = "done"
        => /\ made[m].clientSigner = ClientSigner
           /\ made[m].result = "err"
                 <=> (made[m].explicit \in {NotGiven, "null"} /\ ~signer)
           /\ made[m].result = "err"
                 => made[m].error = ContractSignerRequiredError /\ made[m].runner = NoSigner
           /\ made[m].result = "ok"
                 => made[m].runner = IF made[m].explicit = "explicitSigner"
                                     THEN "explicitSigner" ELSE "clientSigner"

\* Both signers were available and the explicit one was used.
C27_Witness ==
    /\ signer /\ made[1].explicit = "explicitSigner"
    /\ made[1].result = "ok" /\ made[1].runner = "explicitSigner"

\* ------------------------------------------------------------------ useFhevmClient claims
\* No creation is in flight: nothing the hook started is still to run.
HookAtRest == \A e \in Effects : hook.effects[e].state # "pending"

C29_NotInitializedFirst ==
    [][/\ \A k \in DCalls :
            (dec[k].pc = "idle" /\ dec'[k].pc # "idle" /\ ~decInitialized)
            => /\ dec'[k] = [IdleDCall EXCEPT !.pc = "done", !.result = "err",
                                              !.error = NotInitializedError,
                                              !.req = dec'[k].req, !.batch = dec'[k].batch,
                                              !.idx = dec'[k].idx]
               /\ UNCHANGED <<decBuilt, encBuilt, now, pub>>
       /\ \A q \in PCalls :
            (pub[q].pc = "idle" /\ pub'[q].pc # "idle" /\ ~decInitialized)
            => /\ pub'[q] = [IdlePCall EXCEPT !.pc = "done", !.result = "err",
                                              !.error = NotInitializedError,
                                              !.methodName = pub'[q].methodName,
                                              !.args = pub'[q].args]
               /\ UNCHANGED <<decBuilt, encBuilt, now, dec>>]_vars

\* On a disposed client without signer both calls were rejected as not initialized.
C29_Witness ==
    /\ ~signer /\ disposed /\ ~NeverInitialized /\ ~decInitialized
    /\ dec[1].result = "err" /\ dec[1].error = NotInitializedError /\ ~dec[1].entryInit
    /\ pub[1].result = "err" /\ pub[1].error = NotInitializedError /\ pub[1].viewCalls = 0
    /\ decBuilt = 0

\* ------------------------------------------------------------------ order of initialization
\* C30: isInitialized becomes true only in the last slice of an initialize()
\* call, after that call's awaits of EncryptionService.initialize() and then of
\* DecryptionService.initialize() have both returned; and while an initialize()
\* call that nothing overlaps is in flight, or when it fails, isInitialized is
\* false; when it succeeds both services are initialized.
C30_ReadyAfterBoth ==
    [][/\ (~isInitialized /\ isInitialized')
            => \E c \in ICalls :
                  /\ init[c].pc = "awaitDec"
                  /\ init'[c].pc = "done" /\ init'[c].result = "ok" /\ init'[c].setReady
       /\ \A c \in ICalls :
            /\ (init[c].pc = "awaitEnc" /\ init'[c].pc = "awaitDec") => decInitialized'
            /\ (init[c].pc = "create" /\ init'[c].pc = "awaitEnc") => encInitialized'
            /\ (init'[c].solo /\ init'[c].pc \notin {"idle", "done"}) => ~isInitialized'
            /\ (init'[c].solo /\ Failing(c)) => ~isInitialized'
            /\ (init'[c].solo /\ InFlight(c) /\ init'[c].result = "ok")
                  => isInitialized' /\ encInitialized' /\ decInitialized'
                     /\ Truthy(encInstance')]_vars

\* A first initialize() failed alone, a second one then succeeded alone.
C30_Witness ==
    /\ init[1].result = "err" /\ init[1].solo
    /\ init[2].result = "ok" /\ init[2].solo /\ init[2].setReady /\ init[2].built = 1
    /\ isInitialized /\ encInitialized /\ decInitialized /\ ~disposed

\* ------------------------------------------------------------------ Ready implies keys
\* C31: in every reachable state, whatever the interleaving of initialize() and
\* dispose() calls, a client whose isInitialized is true has hasKeys() true.
C31_ReadyHasKeys == isInitialized => hasKeys

\* ------------------------------------------------------------------ retry claims
\* The least integer not below maxRetries (given as twice its value, not negative).
CeilOfHalves(twice) == (twice + 1) \div 2

\* fn is invoked, then the delay and fn in turns: call, sleep, call, ...
Alternates(log) ==
    \A j \in 1..Len(log) : log[j] = IF j % 2 = 1 THEN "call" ELSE "sleep"

\* What holds of a retry call whatever the bound on its invocations.
RetryCourse(r, most) ==
    /\ r.invoked >= 1 /\ r.invoked <= most
    /\ Alternates(r.log)
    /\ Len(r.log) = IF r.pc = "sleeping" THEN 2 * r.invoked ELSE 2 * r.invoked - 1
    /\ r.pc = "calling" => r.lastError = r.invoked - 1
    /\ r.result = "ok" => /\ r.pc = "done" /\ r.value = r.invoked
                          /\ r.lastError = r.invoked - 1
    /\ r.result = "err" => /\ r.pc = "done" /\ r.invoked = most
                           /\ r.error = r.invoked /\ r.lastError = r.invoked
    /\ r.pc = "done" <=> r.result # "none"

\* C32 as stated: with maxRetries >= 1, fn is invoked at most maxRetries times,
\* one invocation after the other, the delay between two of them only; the
\* first success is returned; after maxRetries failures the last error is thrown.
C32_AtMostMaxRetries ==
    (rt.pc # "idle" /\ rt.twice >= 2)
        => /\ 2 * rt.invoked <= rt.twice
           /\ RetryCourse(rt, rt.invoked)

\* C32, amended: with maxRetries >= 1, fn is invoked at most ceil(maxRetries)
\* times (maxRetries times for an integer), one invocation after the other, the
\* delay between two of them only and never after the last; the first success
\* is returned with its value; after ceil(maxRetries) failures the error of the
\* last is thrown; and, fn settling every time, the call ends.
C32_RetryTerminates ==
    /\ []((rt.pc # "idle" /\ rt.twice >= 2)
            => RetryCourse(rt, CeilOfHalves(rt.twice)))
    /\ ((rt.pc # "idle") ~> (rt.pc = "done"))

\* retry(fn, 2.5, 1000) with fn failing every time: three invocations, two
\* delays, the third error thrown.
C32_Witness ==
    /\ rt.twice = 5 /\ rt.delay = 1000 /\ rt.result = "err"
    /\ rt.invoked = 3 /\ rt.error = 3
    /\ rt.log = <<"call", "sleep", "call", "sleep", "call">>

\* C33: with maxRetries <= 0 fn is never invoked, no delay is taken, and the
\* call ends at once rejected with undefined (lastError was never assigned).
C33_NoAttempt ==
    (rt.pc # "idle" /\ rt.twice <= 0)
        => /\ rt.invoked = 0 /\ rt.log = <<>>
           /\ rt.pc = "done" /\ rt.result = "err"
           /\ rt.error = UndefinedError /\ rt.value = 0

\* retry(fn, -1, 1000) was called.
C33_Witness ==
    rt.twice = -2 /\ rt.delay = 1000 /\ rt.pc = "done" /\ rt.error = UndefinedError

\* ------------------------------------------------------------------ dispose during userDecrypt
Suspended(k) == dec[k].pc \in {"import", "create", "sign", "gateway"}

\* C34: a userDecrypt call that passed its two checks looks at neither again:
\* a dispose() while it is suspended leaves the call as it is, each of its later
\* steps can still be taken and does what it does on a Ready client (the
\* signature over its typed data, its payload to the gateway, the plaintext
\* returned), and no step after the entry rejects it as not initialized or
\* without signer.
C34_ChecksOnEntryOnly ==
    /\ [](\A k \in DCalls :
            /\ dec[k].pc = "import" => ENABLED UdImportDone(k)
            /\ dec[k].pc = "create" => ENABLED UdCreateDone(k)
            /\ dec[k].pc = "sign" => ENABLED UdSignDone(k)
            /\ dec[k].pc = "gateway" => ENABLED UdGatewayDone(k))
    /\ [][\A k \in DCalls :
            /\ (Suspended(k) /\ decInitialized /\ ~decInitialized') => dec'[k] = dec[k]
            /\ Suspended(k) => dec'[k].error \notin {NotInitializedError, SignerRequiredError}
            /\ (dec[k].pc = "sign" /\ dec'[k].pc # "sign" /\ dec'[k].result # "err")
                  => /\ dec'[k].pc = "gateway"
                     /\ dec'[k].signature = SignTypedData(dec[k].eip712)
                     /\ dec'[k].submitted = Payload(dec[k].req, dec'[k].signature)
            /\ (dec[k].pc = "gateway" /\ dec'[k].result = "ok")
                  => dec'[k].value.value = Plaintext(dec[k].req.handle)]_vars

\* dispose() came while the call was suspended; the call has since obtained its
\* signature and is waiting for the gateway.
C34_Witness ==
    /\ dec[1].entryInit /\ disposed /\ ~decInitialized
    /\ dec[1].pc = "gateway" /\ dec[1].signature = SignTypedData(dec[1].eip712)
    /\ dec[1].submitted = Payload(dec[1].req, dec[1].signature)

BatchCalls(b) == {batch[b].calls[i] : i \in 1..Len(batch[b].calls)}
FailedNow(b) == {k \in BatchCalls(b) : dec[k].result # "err" /\ dec'[k].result = "err"}

\* C35: batchUserDecrypt enters the userDecrypt call of every request in the step
\* in which it is called; the batch rejects in the very step in which the first of
\* its calls fails, whatever that call's index, and with that call's error, which
\* later failures do not replace; and the calls still suspended when the batch has
\* rejected go on: each of their continuations stays enabled, a signature obtained
\* is submitted to the gateway and a gateway answer is returned by the call.
C35_FanOutFailFast ==
    /\ [](\A b \in Batches : batch[b].status = "rejected" =>
            \A k \in BatchCalls(b) :
                /\ dec[k].pc = "import" => ENABLED UdImportDone(k)
                /\ dec[k].pc = "create" => ENABLED UdCreateDone(k)
                /\ dec[k].pc = "sign" => ENABLED UdSignDone(k)
                /\ dec[k].pc = "gateway" => ENABLED UdGatewayDone(k))
    /\ [][\A b \in Batches :
            /\ (batch[b].status = "idle" /\ batch'[b].status # "idle")
                  => /\ Len(batch'[b].calls) = Len(batch'[b].requests)
                     /\ \A i \in 1..Len(batch'[b].requests) :
                           LET k == batch'[b].calls[i]
                           IN /\ dec[k].pc = "idle" /\ dec'[k].pc # "idle"
                              /\ dec'[k].req = batch'[b].requests[i]
                     /\ batch'[b].status = "rejected"
                           <=> \E i \in 1..Len(batch'[b].calls) :
                                  dec'[batch'[b].calls[i]].result = "err"
                     /\ batch'[b].status = "rejected"
                           => batch'[b].error = dec'[batch'[b].calls[1]].error
            /\ batch[b].status = "pending"
                  => /\ batch'[b].status = "rejected" <=> FailedNow(b) # {}
                     /\ \A k \in FailedNow(b) : batch'[b].error = dec'[k].error
            /\ batch[b].status = "rejected"
                  => /\ batch'[b] = batch[b]
                     /\ \A k \in BatchCalls(b) :
                           /\ (dec[k].pc = "sign" /\ dec'[k].pc # "sign" /\ dec'[k].result # "err")
                                 => /\ dec'[k].pc = "gateway"
                                    /\ dec'[k].submitted = Payload(dec[k].req, dec'[k].signature)
                           /\ (dec[k].pc = "gateway" /\ dec'[k].result = "ok")
                                 => /\ dec'[k].pc = "done"
                                    /\ dec'[k].value.value = Plaintext(dec[k].req.handle)]_vars

\* The second call of a batch failed first and rejected the batch with its error;
\* the first call has since obtained its signature and got the gateway's answer.
C35_Witness ==
    \E b \in Batches :
        /\ batch[b].status = "rejected"
        /\ Len(batch[b].calls) = 2
        /\ dec[batch[b].calls[2]].result = "err"
        /\ batch[b].error = dec[batch[b].calls[2]].error
        /\ dec[batch[b].calls[1]].result = "ok"
        /\ batch[b].values[1] = NoResult


\* C36: batchUserDecrypt([]) resolves at once to the empty list, whether or not
\* the service is initialized and the client has a signer; the step enters no
\* userDecrypt call and builds no backend instance, so nothing is derived, signed
\* or submitted for it.
C36_EmptyBatch ==
    /\ [](\A b \in Batches :
            (batch[b].status # "idle" /\ batch[b].requests = <<>>)
                => /\ batch[b].status = "resolved"
                   /\ batch[b].result = <<>>
                   /\ batch[b].calls = <<>>
                   /\ batch[b].error = <<>>)
    /\ [][\A b \in Batches :
            (batch[b].status = "idle" /\ batch'[b].status # "idle" /\ batch'[b].requests = <<>>)
                => /\ dec' = dec
                   /\ decBuilt' = decBuilt
                   /\ UNCHANGED <<lifecycleVars, now>>]_vars

\* An empty batch has resolved on a service that is not initialized, for a
\* client without a signer.
C36_Witness ==
    \E b \in Batches :
        /\ batch[b].status = "resolved"
        /\ batch[b].requests = <<>>
        /\ ~decInitialized
        /\ ~signer
        /\ \A k \in DCalls : dec[k].pc = "idle"


NetworkNames == {g.network : g \in GivenConfigs} \cup ObjectPrototypeKeys

\* C37: the two services resolve every network name, known, unknown or inherited
\* from Object.prototype, to the same chainId and the same RPC URL, and the
\* argument userDecrypt passes to createInstance equals the one initialize()
\* passed on the same client.
C37_SameResolution ==
    /\ \A n \in NetworkNames :
          /\ decGetChainId(n) = getChainId(n)
          /\ decGetNetworkUrl(n) = getNetworkUrl(n)
    /\ \A k \in DCalls :
          dec[k].created # NoInstanceConfig
              => /\ dec[k].created = InstanceConfig
                 /\ \A c \in ICalls :
                       init[c].created # NoInstanceConfig => dec[k].created = init[c].created

\* On a client of a network in neither table, initialize() and userDecrypt have
\* each constructed a backend instance.
C37_Witness ==
    /\ getNetwork \notin DOMAIN chainIds \cup ObjectPrototypeKeys
    /\ init[1].created # NoInstanceConfig
    /\ dec[1].created = init[1].created
    /\ dec[1].instance # 0


\* C38: createFhevmClient hands a client to its caller only in a step that finds
\* the client's initialize() resolved, isInitialized and hasKeys true, one backend
\* instance built; when that initialize() rejected the factory rejects with its
\* error and hands over nothing. createFhevmClientSync hands over the client as
\* the constructor left it: flags false, no initialize() call made, no backend
\* instance constructed.
C38_Factories ==
    [][/\ (fac.kind' = "async" /\ ~fac.returned /\ fac.returned')
             => /\ fac.result' = "ok"
                /\ init[1].result = "ok"
                /\ isInitialized' /\ hasKeys'
                /\ encBuilt' = 1
       /\ (fac.pc = "initializing" /\ init[1].result = "err" /\ fac' # fac)
             => /\ fac.result' = "err"
                /\ ~fac.returned'
                /\ fac.error' = init[1].error
       /\ (fac.kind' = "async" /\ fac.result' = "err") => ~fac.returned'
       /\ (fac.kind' = "sync" /\ fac.kind # "sync")
             => /\ fac.returned'
                /\ ~isInitialized' /\ ~encInitialized' /\ ~decInitialized'
                /\ encInstance' = Undefined
                /\ encBuilt' = 0
                /\ \A c \in ICalls : init[c].pc' = "idle"]_vars

\* createFhevmClient has just resolved with its client.
C38_Witness ==
    /\ fac.kind = "async"
    /\ fac.returned
    /\ isInitialized /\ hasKeys
    /\ lastEvent = "initOk"
    /\ \A c \in ICalls : c > 1 => init[c].pc = "idle"


InFlightOps(h) == {u \in UCalls : use[h].ops[u].pc = "inflight"}

\* C40: in either hook the busy flag is true exactly while at least one operation
\* started through the hook is in flight, also when several calls overlap; and an
\* operation that fails does not reject to its caller: it returns null and the
\* hook's error is the operation's error.
C40_BusyExact ==
    /\ [](\A h \in HookKinds : use[h].busy <=> InFlightOps(h) # {})
    /\ [][\A h \in HookKinds : \A u \in UCalls :
            /\ ~use[h].ops[u].rejected'
            /\ (use[h].ops[u].pc = "inflight" /\ use[h].ops[u].pc' = "done"
                   /\ use[h].ops[u].returned' # "value")
                  => /\ use[h].ops[u].returned' = "null"
                     /\ use[h].error' \in OpErrors]_vars


CurrentPending ==
    \E e \in Effects : hook.effects[e].state = "pending" /\ hook.effects[e].mounted

\* C39: a creation that settles after its effect was cleaned up changes none of
\* client, error and isLoading; and whenever the component is mounted with no
\* creation of a live effect in flight, isLoading becomes false (or the component
\* is unmounted), also after the config changed to null during a creation.
C39_LoadingSettles ==
    /\ [][\A e \in Effects :
            (hook.effects[e].state = "pending" /\ ~hook.effects[e].mounted
               /\ hook.effects[e].state' # "pending")
                => /\ hook.client' = hook.client
                   /\ hook.error' = hook.error
                   /\ hook.isLoading' = hook.isLoading]_vars
    /\ ((hook.phase = "mounted" /\ ~CurrentPending)
            ~> (~hook.isLoading \/ hook.phase = "unmounted"))

====
